---- MODULE Spec2Model ----
(***************************************************************************)
(* Job store, round stages and feedback orchestrator of the pitching-coach *)
(* backend (src/app/backend).  One orchestration worker thread per         *)
(* successful ensure_feedback_orchestration_started call; each worker      *)
(* submits the round stages to a thread pool, iterates as_completed, and   *)
(* then takes the round-5 decision.                                        *)
(***************************************************************************)
EXTENDS Integers, Sequences, FiniteSets, TLC

\* ---------------------------------------------------------------- bounds
NThreads == 2          \* orchestration worker threads that can exist at once
MaxFalse == 1          \* False returns of ensure_started counted per run

\* ------------------------------------------------------ program constants
JobIds == {"j1"}
Tids == 1..NThreads
NoRound == 0                       \* first_failed_round is None
NoPayload == 0                     \* feedback_round_N is None
IndependentRounds == {1, 2, 3, 4}  \* ROUND_RUNNERS
JobRounds == {1, 2, 3, 4}          \* feedback_round_N_* attributes of JobRecord
StoredRounds == {1, 2, 3}          \* feedback_round_N_* keywords of update_job
DerivedMetricsFields ==
    {"duration_seconds", "wpm", "pause_count", "longest_pause_seconds",
     "filler_count", "filler_rate_per_min", "top_fillers"}
Statuses == {"pending", "running", "done", "failed"}
MAX_ERROR_CHARS == 1200            \* coaching_round<N>.MAX_ERROR_CHARS
Settled == {"FINISHED_OK", "FINISHED_EXC", "CANCELLED_AND_NOTIFIED"}

INITIAL_VERSION == [r \in JobRounds |->
    IF r = 1 THEN "r1_v1" ELSE IF r = 2 THEN "r2_v1"
    ELSE IF r = 3 THEN "r3_v1" ELSE "None"]
ROUND_VERSION == [r \in 1..5 |->
    IF r = 1 THEN "r1_v3" ELSE IF r = 2 THEN "r2_v2"
    ELSE IF r = 3 THEN "r3_v1" ELSE IF r = 4 THEN "r4_v1" ELSE "r5_v2"]

VARIABLES
    jobs,               \* InMemoryJobStore._jobs : job id -> JobRecord
    active_jobs,        \* _active_jobs
    wpc,                \* position of each orchestration worker thread
    wjob,               \* job_id argument of the worker
    rounds_to_run,      \* local of _run_feedback_orchestration
    futures,            \* state of the future of each submitted round task
    ac_started,         \* as_completed has installed its waiter
    ac_finished,        \* as_completed: futures finished before it started (a set)
    ac_queue,           \* as_completed: waiter.finished_futures, in settle order
    yielded,            \* rounds whose future the for loop has handled
    first_failed_round, \* local of _run_feedback_orchestration
    log,                \* the worker's per-round log calls, in order
    fail_order,         \* rounds in the order their tasks raised
    all_valid,          \* every model response of this run was valid at once
    model_calls,        \* the responses to the model requests each stage issued
    stage_exc,          \* the exception each stage raised to its caller
    r5_invoked,         \* the worker called run_round5
    outcome,            \* how the worker's try block ended
    ensure_true,        \* True returns of ensure_started since the last release
    ensure_false,       \* False returns since the last release (capped)
    pjob,               \* lifecycle fields of the job the pipeline works on
    ppc,                \* position of process_transcription_job
    plocal,             \* locals of process_transcription_job
    pwrites,            \* keyword sets of the update_job calls of this run, in order
    pexc,               \* text of the exception the run's try block raised
    spc,                \* position of process_summary_job
    dpc,                \* position of process_deck_only_job
    call,               \* a pure function and the arguments it is applied to
    ret,                \* what that application returned or raised
    lkind,              \* the job store of concurrent loads: in memory or database
    ljob,               \* the transcript fields of the job they load
    lpc,                \* position of each stage in load_shared_input
    lsnap,              \* what each stage's get_job and extraction read
    lupdates            \* the `updates` dict of each stage

wvars == <<wpc, wjob, rounds_to_run, futures, ac_started, ac_finished, ac_queue,
           yielded, first_failed_round, log, fail_order, all_valid, model_calls,
           stage_exc, r5_invoked, outcome>>
pvars == <<pjob, ppc, plocal, pwrites, pexc, spc, dpc>>
fvars == <<call, ret>>
lvars == <<lkind, ljob, lpc, lsnap, lupdates>>
ovars == <<jobs, active_jobs, wvars, ensure_true, ensure_false>>
vars == <<ovars, pvars, fvars, lvars>>

\* ------------------------------------------------------------ error texts
\* A text is known by what it says and by its length after strip(); `dots`
\* tells that its last three characters are the "..." that _truncate wrote.
NoError == [msg |-> "None", len |-> 0, dots |-> FALSE]
Text(msg, n) == [msg |-> msg, len |-> n, dots |-> FALSE]

TruncateKeepsMax(text) ==
    IF text.len <= MAX_ERROR_CHARS THEN text
    ELSE [msg |-> text.msg, len |-> MAX_ERROR_CHARS + 3, dots |-> TRUE]

\* _truncate: value[: max_chars - 3] + "..." for a text longer than max_chars
_truncate(text) ==
    IF text.len <= MAX_ERROR_CHARS THEN text
    ELSE [msg |-> text.msg, len |-> (MAX_ERROR_CHARS - 3) + 3, dots |-> TRUE]

\* Lengths of the text of an exception that carries provider or model text.
ExceptionLengths == {MAX_ERROR_CHARS, MAX_ERROR_CHARS + 1}

\* ------------------------------------------------------------- job store
\* JobRecord as create_job builds it: rounds 1..3 pending, round 4 keeps the
\* dataclass default None, no round-5 attribute exists.
NewJob ==
    [transcript_full_text |-> "None",
     job_error |-> "None",
     status  |-> [r \in JobRounds |-> IF r \in StoredRounds THEN "pending" ELSE "None"],
     result  |-> [r \in JobRounds |-> NoPayload],
     version |-> INITIAL_VERSION,
     error   |-> [r \in JobRounds |-> NoError]]

\* getattr(job, "feedback_round_N_status", None)
RoundStatus(job, r) == IF r \in DOMAIN job.status THEN job.status[r] ELSE "None"
\* getattr(job, "feedback_round_N", None)
RoundPayload(job, r) == IF r \in DOMAIN job.result THEN job.result[r] ELSE NoPayload
RoundError(job, r) == IF r \in DOMAIN job.error THEN job.error[r] ELSE NoError
RoundVersion(job, r) == IF r \in DOMAIN job.version THEN job.version[r] ELSE "None"

\* update_job(job_id, feedback_round_<r>_...=...): TypeError for a keyword the
\* signature does not declare, KeyError for an unknown job id.
UpdateRaises(store, j, r) == r \notin StoredRounds \/ j \notin DOMAIN store

\* The merge of the supplied fields; fields is a record whose keys are the
\* supplied keywords: status, result, version, error of round r, and job_error
\* for the error field of the job.
update_job(store, j, r, fields) ==
    IF UpdateRaises(store, j, r) THEN store
    ELSE [store EXCEPT ![j] =
            [transcript_full_text |-> @.transcript_full_text,
             job_error |-> IF "job_error" \in DOMAIN fields
                           THEN fields.job_error ELSE @.job_error,
             status  |-> IF "status" \in DOMAIN fields
                         THEN [@.status EXCEPT ![r] = fields.status] ELSE @.status,
             result  |-> IF "result" \in DOMAIN fields
                         THEN [@.result EXCEPT ![r] = fields.result] ELSE @.result,
             version |-> IF "version" \in DOMAIN fields
                         THEN [@.version EXCEPT ![r] = fields.version] ELSE @.version,
             error   |-> IF "error" \in DOMAIN fields
                         THEN [@.error EXCEPT ![r] = fields.error] ELSE @.error]]

\* --------------------------------------------------- orchestrator helpers
HasTranscriptAlways(job) == TRUE

\* bool(str(job.transcript_full_text or payload.get("full_text") or "").strip())
_has_transcript(job) == job.transcript_full_text # "None"

_round_done(job, r) == RoundStatus(job, r) = "done" /\ RoundPayload(job, r) # NoPayload

_missing_prerequisites(job) == {r \in IndependentRounds : ~_round_done(job, r)}

RoundsToRunAll(job) == IndependentRounds

\* rounds_to_run (line 79)
RoundsToRun(job) == {r \in IndependentRounds : ~_round_done(job, r)}

\* ------------------------------------------------------------ round stages
\* DerivedMetrics(**dict).model_dump() keeps the declared fields only.
ToneAvailable == {"energy_timeline", "sentence_pacing"} \cap DerivedMetricsFields # {}
BodyLanguageAvailable == "body_language" \in DerivedMetricsFields

\* What a model request can bring back:
\*   valid      a JSON object that passes the schema of the round
\*   sliceable  text around such an object: json.loads fails on the whole text
\*   invalid    any other text
\*   error      the request raises
\* Only round 1 slices; to the other rounds sliceable text is invalid text.
ResponseKinds(r) ==
    IF r = 1 THEN {"valid", "sliceable", "invalid", "error"}
    ELSE {"valid", "invalid", "error"}

\* The precondition of the try block (rounds 3 and 4 check a signal group).
PreconditionHolds(r) ==
    IF r = 3 THEN ToneAvailable ELSE IF r = 4 THEN BodyLanguageAvailable ELSE TRUE

\* The try block of run_round<r> from the precondition to the validated
\* payload, given the response to the first request and to a repair request:
\* the responses obtained, in order, and how the block ends
\*   valid               the first response passes validation
\*   repaired            round 1: the object sliced out of the first response
\*                       passes; rounds 2-5: the repaired response passes
\*   model_failed        a request raises, or no response passes
\*   precondition_failed a required signal is absent; no request is made
StageBody(r, first, second) ==
    IF ~PreconditionHolds(r) THEN [calls |-> << >>, o |-> "precondition_failed"]
    ELSE IF first = "error" THEN [calls |-> <<first>>, o |-> "model_failed"]
    ELSE IF first = "valid" THEN [calls |-> <<first>>, o |-> "valid"]
    ELSE IF r = 1 THEN
        [calls |-> <<first>>, o |-> IF first = "sliceable" THEN "repaired" ELSE "model_failed"]
    ELSE [calls |-> <<first, second>>,
          o |-> IF second = "valid" THEN "repaired" ELSE "model_failed"]

StageOutcomes(r) == {StageBody(r, first, second).o : first, second \in ResponseKinds(r)}

StageSucceeds(o) == o \in {"valid", "repaired"}

\* str(exc) of the exception that ends the try block: the precondition
\* messages are fixed, the others carry provider or model text.
ExceptionTexts(r, o) ==
    IF o = "precondition_failed" THEN {Text(o, IF r = 3 THEN 136 ELSE 168)}
    ELSE {Text(o, n) : n \in ExceptionLengths}

\* First update_job of run_round<r>: status running, error cleared, version.
StageStartFields(r) == [status |-> "running", error |-> NoError, version |-> ROUND_VERSION[r]]
\* Last update_job of the try block; run_round1 also passes error=None, the
\* error field of the job itself.
StageDoneFields(r, payload) ==
    IF r = 1
    THEN [result |-> payload, version |-> ROUND_VERSION[r], status |-> "done",
          error |-> NoError, job_error |-> "None"]
    ELSE [result |-> payload, version |-> ROUND_VERSION[r], status |-> "done",
          error |-> NoError]

StageFailedFieldsRaw(text) == [status |-> "failed", error |-> text]

StageFailedFieldsErrorOnly(text) == [error |-> _truncate(text)]

\* update_job of the except block: message = _truncate(str(exc)).
StageFailedFields(text) == [status |-> "failed", error |-> _truncate(text)]

\* What run_round<r> raised to its caller: nothing, the exception of its first
\* update_job (`step1`), or the exception of its try block (`body`).
NoException == [src |-> "none", text |-> NoError]
\* TypeError or KeyError of update_job, raised before the try block.
UpdateException == [src |-> "step1", text |-> Text("update_job_raised", 80)]
BodyException(text) == [src |-> "body", text |-> text]

\* --------------------------------------------------------------- initial
IdleFutures == [r \in IndependentRounds |-> "NONE"]
IdleCalls == [r \in 1..5 |-> << >>]
IdleExceptions == [r \in 1..5 |-> NoException]

\* create_job: lifecycle status "queued", progress 0, nothing else set.
NewLifecycle ==
    [status |-> "queued", progress |-> 0, error |-> "None", transcript |-> FALSE,
     derived_metrics |-> {}, video_gcs_uri |-> FALSE, artifacts_error |-> "None"]

\* The locals of process_transcription_job at entry (lines 243-248).
IdleLocals ==
    [deck_upload |-> FALSE, bucket_name |-> FALSE, uploaded_audio |-> FALSE,
     diarization_requested |-> TRUE, derived_metrics |-> {},
     artifacts_error |-> "None", failed |-> {}, video_joined |-> FALSE,
     cleanup_audio |-> TRUE, cleanup_output |-> TRUE, attempted |-> {},
     delete_failed |-> {}, stt_requests |-> << >>, stt_errors |-> << >>]

NoCall == [fn |-> "none"]

OrchestratorIdle ==
    /\ jobs = << >>
    /\ active_jobs = {}
    /\ wpc = [t \in Tids |-> "idle"]
    /\ wjob = [t \in Tids |-> "-"]
    /\ rounds_to_run = [t \in Tids |-> {}]
    /\ futures = [t \in Tids |-> IdleFutures]
    /\ ac_started = [t \in Tids |-> FALSE]
    /\ ac_finished = [t \in Tids |-> {}]
    /\ ac_queue = [t \in Tids |-> << >>]
    /\ yielded = [t \in Tids |-> {}]
    /\ first_failed_round = [t \in Tids |-> NoRound]
    /\ log = [t \in Tids |-> << >>]
    /\ fail_order = [t \in Tids |-> << >>]
    /\ all_valid = [t \in Tids |-> TRUE]
    /\ model_calls = [t \in Tids |-> IdleCalls]
    /\ stage_exc = [t \in Tids |-> IdleExceptions]
    /\ r5_invoked = [t \in Tids |-> FALSE]
    /\ outcome = [t \in Tids |-> "none"]
    /\ ensure_true = [j \in JobIds |-> 0]
    /\ ensure_false = [j \in JobIds |-> 0]

PipelineIdle ==
    /\ pjob = NewLifecycle
    /\ ppc = "idle"
    /\ plocal = IdleLocals
    /\ pwrites = << >>
    /\ pexc = "None"
    /\ spc = "idle"
    /\ dpc = "idle"

FunctionsIdle ==
    /\ call = NoCall
    /\ ret = [done |-> FALSE]

\* The stages that reach load_shared_input: run_round4's first update_job
\* raises before it.
LoadStages == StoredRounds
LoadsIdle ==
    /\ lkind = "memory"
    /\ ljob = << >>
    /\ lpc = [s \in LoadStages |-> "idle"]
    /\ lsnap = [s \in LoadStages |-> << >>]
    /\ lupdates = [s \in LoadStages |-> << >>]

Init == OrchestratorIdle /\ PipelineIdle /\ FunctionsIdle /\ LoadsIdle

\* ------------------------------------------------------ store environment
\* create_job(job_id) with a fresh id (web.py creates ids with uuid4).
CreateJob(j) ==
    /\ j \notin DOMAIN jobs
    /\ jobs' = [k \in DOMAIN jobs \cup {j} |-> IF k = j THEN NewJob ELSE jobs[k]]
    /\ UNCHANGED <<active_jobs, wvars, ensure_true, ensure_false>>
    /\ UNCHANGED <<pvars, fvars, lvars>>

\* Final update_job of the transcription pipeline: the transcript is written.
PipelineDone(j) ==
    /\ j \in DOMAIN jobs
    /\ jobs[j].transcript_full_text = "None"
    /\ jobs' = [jobs EXCEPT ![j].transcript_full_text = "text"]
    /\ UNCHANGED <<active_jobs, wvars, ensure_true, ensure_false>>
    /\ UNCHANGED <<pvars, fvars, lvars>>

\* delete_job(job_id): web.py deletes a job only when saving its upload
\* failed, that is before any transcript exists.
DeleteJob(j) ==
    /\ j \in DOMAIN jobs
    /\ jobs[j].transcript_full_text = "None"
    /\ jobs' = [k \in DOMAIN jobs \ {j} |-> jobs[k]]
    /\ UNCHANGED <<active_jobs, wvars, ensure_true, ensure_false>>
    /\ UNCHANGED <<pvars, fvars, lvars>>

\* -------------------------------------------------- ensure_..._started
AlreadyActiveNever(j) == FALSE

AlreadyActive(j) == j \in active_jobs

AddActiveNoop(actives, j) == actives

\* `_active_jobs.add(job_id)`
AddActive(actives, j) == actives \cup {j}

IdleTids == {t \in Tids : wpc[t] = "idle"}
FreshTid == CHOOSE t \in IdleTids : \A u \in IdleTids : t <= u

\* `with _active_jobs_lock: if job_id in _active_jobs: return False`
EnsureStartedFalse(j) ==
    /\ AlreadyActive(j)
    /\ ensure_false[j] < MaxFalse
    /\ ensure_false' = [ensure_false EXCEPT ![j] = @ + 1]
    /\ UNCHANGED <<jobs, active_jobs, wvars, ensure_true>>
    /\ UNCHANGED <<pvars, fvars, lvars>>

\* `_active_jobs.add(job_id)`; thread.start(); return True
EnsureStartedTrue(j) ==
    /\ ~AlreadyActive(j)
    /\ IdleTids # {}
    /\ active_jobs' = AddActive(active_jobs, j)
    /\ wpc' = [wpc EXCEPT ![FreshTid] = "start"]
    /\ wjob' = [wjob EXCEPT ![FreshTid] = j]
    /\ ensure_true' = [ensure_true EXCEPT ![j] = @ + 1]
    /\ UNCHANGED <<jobs, rounds_to_run, futures, ac_started, ac_finished, ac_queue,
                   yielded, first_failed_round, log, fail_order, all_valid,
                   model_calls, stage_exc, r5_invoked, outcome, ensure_false>>
    /\ UNCHANGED <<pvars, fvars, lvars>>

\* ------------------------------------------------- _run_feedback_orchestration
\* Lines 66-92: fetch the job, abort silently, or submit the rounds not done.
WorkerStart(t) ==
    /\ wpc[t] = "start"
    /\ LET j == wjob[t] IN
       IF j \notin DOMAIN jobs THEN
          /\ outcome' = [outcome EXCEPT ![t] = "abort_job_not_found"]
          /\ wpc' = [wpc EXCEPT ![t] = "finally"]
          /\ UNCHANGED <<rounds_to_run, futures>>
       ELSE IF ~_has_transcript(jobs[j]) THEN
          /\ outcome' = [outcome EXCEPT ![t] = "abort_transcript_missing"]
          /\ wpc' = [wpc EXCEPT ![t] = "finally"]
          /\ UNCHANGED <<rounds_to_run, futures>>
       ELSE LET todo == RoundsToRun(jobs[j]) IN
          /\ rounds_to_run' = [rounds_to_run EXCEPT ![t] = todo]
          /\ futures' = [futures EXCEPT ![t] =
                            [r \in IndependentRounds |->
                                IF r \in todo THEN "PENDING" ELSE "NONE"]]
          /\ wpc' = [wpc EXCEPT ![t] = IF todo = {} THEN "decide" ELSE "submitted"]
          /\ UNCHANGED outcome
    /\ UNCHANGED <<jobs, active_jobs, wjob, ac_started, ac_finished, ac_queue, yielded,
                   first_failed_round, log, fail_order, all_valid, model_calls,
                   stage_exc, r5_invoked, ensure_true, ensure_false>>
    /\ UNCHANGED <<pvars, fvars, lvars>>

\* A future settles: as_completed's waiter, once installed, records it.
QueueAfterSettle(t, r) == IF ac_started[t] THEN Append(ac_queue[t], r) ELSE ac_queue[t]

\* A pool thread takes a pending task and enters run_round<r>: the first
\* update_job either sets the round running or raises out of the stage.
TaskStart(t, r) ==
    /\ futures[t][r] = "PENDING"
    /\ LET j == wjob[t] IN
       IF UpdateRaises(jobs, j, r) THEN
          /\ futures' = [futures EXCEPT ![t][r] = "FINISHED_EXC"]
          /\ ac_queue' = [ac_queue EXCEPT ![t] = QueueAfterSettle(t, r)]
          /\ fail_order' = [fail_order EXCEPT ![t] = Append(@, r)]
          /\ stage_exc' = [stage_exc EXCEPT ![t][r] = UpdateException]
          /\ UNCHANGED jobs
       ELSE
          /\ jobs' = update_job(jobs, j, r, StageStartFields(r))
          /\ futures' = [futures EXCEPT ![t][r] = "RUNNING"]
          /\ UNCHANGED <<ac_queue, fail_order, stage_exc>>
    /\ UNCHANGED <<active_jobs, wpc, wjob, rounds_to_run, ac_started, ac_finished,
                   yielded, first_failed_round, log, all_valid, model_calls,
                   r5_invoked, outcome, ensure_true, ensure_false>>
    /\ UNCHANGED <<pvars, fvars, lvars>>

\* The try block of run_round<r> ends: done with the payload, or failed with
\* the error and the exception re-raised into the future.
TaskFinish(t, r) ==
    /\ futures[t][r] = "RUNNING"
    /\ \E first, second \in ResponseKinds(r) :
          LET run == StageBody(r, first, second) IN
          /\ model_calls' = [model_calls EXCEPT ![t][r] = run.calls]
          /\ all_valid' = [all_valid EXCEPT ![t] =
                            @ /\ run.o \in {"valid", "precondition_failed"}]
          /\ IF StageSucceeds(run.o) THEN
                /\ jobs' = update_job(jobs, wjob[t], r, StageDoneFields(r, t))
                /\ futures' = [futures EXCEPT ![t][r] = "FINISHED_OK"]
                /\ UNCHANGED <<fail_order, stage_exc>>
             ELSE \E text \in ExceptionTexts(r, run.o) :
                /\ jobs' = update_job(jobs, wjob[t], r, StageFailedFields(text))
                /\ futures' = [futures EXCEPT ![t][r] = "FINISHED_EXC"]
                /\ fail_order' = [fail_order EXCEPT ![t] = Append(@, r)]
                /\ stage_exc' = [stage_exc EXCEPT ![t][r] = BodyException(text)]
    /\ ac_queue' = [ac_queue EXCEPT ![t] = QueueAfterSettle(t, r)]
    /\ UNCHANGED <<active_jobs, wpc, wjob, rounds_to_run, ac_started, ac_finished,
                   yielded, first_failed_round, log, r5_invoked, outcome,
                   ensure_true, ensure_false>>
    /\ UNCHANGED <<pvars, fvars, lvars>>

\* A pool thread takes a cancelled task: set_running_or_notify_cancel.
TaskCancelNotify(t, r) ==
    /\ futures[t][r] = "CANCELLED"
    /\ futures' = [futures EXCEPT ![t][r] = "CANCELLED_AND_NOTIFIED"]
    /\ ac_queue' = [ac_queue EXCEPT ![t] = QueueAfterSettle(t, r)]
    /\ UNCHANGED <<jobs, active_jobs, wpc, wjob, rounds_to_run, ac_started,
                   ac_finished, yielded, first_failed_round, log, fail_order,
                   all_valid, model_calls, stage_exc, r5_invoked, outcome,
                   ensure_true, ensure_false>>
    /\ UNCHANGED <<pvars, fvars, lvars>>

\* as_completed(futures) starts: the futures already finished form a set,
\* the others are reported by the waiter in the order they settle.
AsCompletedBegin(t) ==
    /\ wpc[t] = "submitted"
    /\ ac_started' = [ac_started EXCEPT ![t] = TRUE]
    /\ ac_finished' = [ac_finished EXCEPT ![t] =
                          {r \in rounds_to_run[t] : futures[t][r] \in Settled}]
    /\ wpc' = [wpc EXCEPT ![t] = "collect"]
    /\ UNCHANGED <<jobs, active_jobs, wjob, rounds_to_run, futures, ac_queue, yielded,
                   first_failed_round, log, fail_order, all_valid, model_calls,
                   stage_exc, r5_invoked, outcome, ensure_true, ensure_false>>
    /\ UNCHANGED <<pvars, fvars, lvars>>

LoopDoneOnFailure(ys, rs, ff) == ys = rs \/ ff # NoRound

\* The for loop ends when every submitted future has been yielded; leaving
\* the `with` block then joins the pool.
LoopDone(ys, rs, ff) == ys = rs

CancelOthersRunning(fs, r) ==
    [o \in IndependentRounds |->
        IF o # r /\ fs[o] \in {"PENDING", "RUNNING"} THEN "CANCELLED" ELSE fs[o]]

\* other_future.cancel() for every other submitted future that is not done:
\* a pending future becomes cancelled, a running one is left alone.
CancelOthers(fs, r) ==
    [o \in IndependentRounds |-> IF o # r /\ fs[o] = "PENDING" THEN "CANCELLED" ELSE fs[o]]

FirstFailureAlways(ff) == TRUE

\* `if first_failed_round is None:` (line 105)
FirstFailureIsUnset(ff) == ff = NoRound

\* One iteration of `for future in as_completed(futures)` (lines 94-134).
HandleFuture(t) ==
    /\ wpc[t] = "collect"
    /\ \E r \in rounds_to_run[t] \ yielded[t] :
          /\ IF ac_finished[t] # {} THEN r \in ac_finished[t]
             ELSE ac_queue[t] # << >> /\ r = Head(ac_queue[t])
          /\ ac_finished' = [ac_finished EXCEPT ![t] = @ \ {r}]
          /\ ac_queue' = [ac_queue EXCEPT ![t] =
                             IF ac_finished[t] # {} THEN @ ELSE Tail(@)]
          /\ yielded' = [yielded EXCEPT ![t] = @ \cup {r}]
          /\ IF futures[t][r] = "FINISHED_OK" THEN
                /\ log' = [log EXCEPT ![t] = Append(@, <<"completed", r>>)]
                /\ UNCHANGED <<first_failed_round, futures>>
             ELSE IF FirstFailureIsUnset(first_failed_round[t]) THEN
                /\ first_failed_round' = [first_failed_round EXCEPT ![t] = r]
                /\ log' = [log EXCEPT ![t] = Append(@, <<"first_failure", r>>)]
                /\ futures' = [futures EXCEPT ![t] = CancelOthers(@, r)]
             ELSE
                /\ log' = [log EXCEPT ![t] = Append(@, <<"additional_failure", r>>)]
                /\ UNCHANGED <<first_failed_round, futures>>
          /\ wpc' = [wpc EXCEPT ![t] =
                        IF LoopDone(yielded'[t], rounds_to_run[t], first_failed_round'[t])
                        THEN "decide" ELSE "collect"]
    /\ UNCHANGED <<jobs, active_jobs, wjob, rounds_to_run, ac_started, fail_order,
                   all_valid, model_calls, stage_exc, r5_invoked, outcome,
                   ensure_true, ensure_false>>
    /\ UNCHANGED <<pvars, fvars, lvars>>

\* run_round5 (coaching_round5.py 145-201), called synchronously by the worker.
Round5Prerequisites(job) == {r \in {1, 2, 3, 4} : ~_round_done(job, r)}

\* "Round 5 requires completed rounds 1-4. Missing: round1, ..."
Round5MissingText == Text("missing_prerequisites", 79)

\* The store after the call, the responses it obtained, what it raised.
run_round5(store, j, first, second, text, payload) ==
    IF UpdateRaises(store, j, 5)
    THEN [store |-> store, calls |-> << >>, exc |-> UpdateException]
    ELSE LET s1 == update_job(store, j, 5, StageStartFields(5))
             run == StageBody(5, first, second) IN
         IF Round5Prerequisites(s1[j]) # {}
         THEN [store |-> update_job(s1, j, 5, StageFailedFields(Round5MissingText)),
               calls |-> << >>, exc |-> BodyException(Round5MissingText)]
         ELSE IF StageSucceeds(run.o)
         THEN [store |-> update_job(s1, j, 5, StageDoneFields(5, payload)),
               calls |-> run.calls, exc |-> NoException]
         ELSE [store |-> update_job(s1, j, 5, StageFailedFields(text)),
               calls |-> run.calls, exc |-> BodyException(text)]

\* _mark_round5_skipped (lines 50-58)
Round5SkippedFields ==
    [status |-> "failed", error |-> Text("round5_skipped", 120), version |-> "r5_v2"]

MustSkipRound5Never(ff, missing) == FALSE

\* `if first_failed_round is not None or missing:` (line 146)
MustSkipRound5(ff, missing) == ff # NoRound \/ missing # {}

\* Lines 136-181: re-fetch the job and decide about round 5.  An exception of
\* update_job or run_round5 is caught by `except Exception` and logged.
Decide(t) ==
    /\ wpc[t] = "decide"
    /\ LET j == wjob[t] IN
       IF j \notin DOMAIN jobs THEN
          /\ outcome' = [outcome EXCEPT ![t] = "job_missing_after_rounds"]
          /\ UNCHANGED <<jobs, r5_invoked, model_calls, stage_exc>>
       ELSE LET latest == jobs[j]
                missing == _missing_prerequisites(latest) IN
          IF MustSkipRound5(first_failed_round[t], missing) THEN
             IF _round_done(latest, 5) THEN
                /\ outcome' = [outcome EXCEPT ![t] = "round5_preserved_done"]
                /\ UNCHANGED <<jobs, r5_invoked, model_calls, stage_exc>>
             ELSE
                /\ jobs' = update_job(jobs, j, 5, Round5SkippedFields)
                /\ outcome' = [outcome EXCEPT ![t] =
                                  IF UpdateRaises(jobs, j, 5) THEN "unhandled_error"
                                  ELSE "round5_skipped"]
                /\ UNCHANGED <<r5_invoked, model_calls, stage_exc>>
          ELSE IF _round_done(latest, 5) THEN
             /\ outcome' = [outcome EXCEPT ![t] = "round5_already_done"]
             /\ UNCHANGED <<jobs, r5_invoked, model_calls, stage_exc>>
          ELSE \E first, second \in ResponseKinds(5) :
               \E text \in ExceptionTexts(5, "model_failed") :
             LET res == run_round5(jobs, j, first, second, text, t) IN
             /\ r5_invoked' = [r5_invoked EXCEPT ![t] = TRUE]
             /\ jobs' = res.store
             /\ model_calls' = [model_calls EXCEPT ![t][5] = res.calls]
             /\ stage_exc' = [stage_exc EXCEPT ![t][5] = res.exc]
             /\ outcome' = [outcome EXCEPT ![t] =
                               IF res.exc # NoException THEN "unhandled_error"
                               ELSE "round5_done"]
    /\ wpc' = [wpc EXCEPT ![t] = "finally"]
    /\ UNCHANGED <<active_jobs, wjob, rounds_to_run, futures, ac_started, ac_finished,
                   ac_queue, yielded, first_failed_round, log, fail_order, all_valid,
                   ensure_true, ensure_false>>
    /\ UNCHANGED <<pvars, fvars, lvars>>

ReleasesOnReturnOnly(out) == out # "unhandled_error"

\* The `finally` block (lines 182-185) runs after every way out of the try.
ReleasesOn(out) == TRUE

\* `_active_jobs.discard(job_id)`; the thread ends and its locals are gone.
Finally(t) ==
    /\ wpc[t] = "finally"
    /\ LET released == ReleasesOn(outcome[t]) IN
       /\ active_jobs' = IF released THEN active_jobs \ {wjob[t]} ELSE active_jobs
       /\ ensure_true' = IF released THEN [ensure_true EXCEPT ![wjob[t]] = 0]
                         ELSE ensure_true
       /\ ensure_false' = IF released THEN [ensure_false EXCEPT ![wjob[t]] = 0]
                          ELSE ensure_false
    /\ wpc' = [wpc EXCEPT ![t] = "idle"]
    /\ wjob' = [wjob EXCEPT ![t] = "-"]
    /\ rounds_to_run' = [rounds_to_run EXCEPT ![t] = {}]
    /\ futures' = [futures EXCEPT ![t] = IdleFutures]
    /\ ac_started' = [ac_started EXCEPT ![t] = FALSE]
    /\ ac_finished' = [ac_finished EXCEPT ![t] = {}]
    /\ ac_queue' = [ac_queue EXCEPT ![t] = << >>]
    /\ yielded' = [yielded EXCEPT ![t] = {}]
    /\ first_failed_round' = [first_failed_round EXCEPT ![t] = NoRound]
    /\ log' = [log EXCEPT ![t] = << >>]
    /\ fail_order' = [fail_order EXCEPT ![t] = << >>]
    /\ all_valid' = [all_valid EXCEPT ![t] = TRUE]
    /\ model_calls' = [model_calls EXCEPT ![t] = IdleCalls]
    /\ stage_exc' = [stage_exc EXCEPT ![t] = IdleExceptions]
    /\ r5_invoked' = [r5_invoked EXCEPT ![t] = FALSE]
    /\ outcome' = [outcome EXCEPT ![t] = "none"]
    /\ UNCHANGED jobs
    /\ UNCHANGED <<pvars, fvars, lvars>>

\* --------------------------------------------------- transcription pipeline
\* update_job(job_id, **kw) on the lifecycle fields: every keyword given
\* replaces the field, the others are left alone.
UpdateLifecycle(job, kw) ==
    [k \in DOMAIN job |-> IF k \in DOMAIN kw THEN kw[k] ELSE job[k]]

RECURSIVE ApplyUpdates(_, _)
ApplyUpdates(job, kws) ==
    IF kws = << >> THEN job ELSE ApplyUpdates(UpdateLifecycle(job, Head(kws)), Tail(kws))

\* update_job(job_id, status=..., progress=..., error=None)
StageUpdate(status, progress) == [status |-> status, progress |-> progress, error |-> "None"]

\* update_job(job_id, progress=...)
ProgressUpdate(progress) == [progress |-> progress]

FailedUpdateKeepsProgress(text) == [status |-> "failed", error |-> text]

\* `except Exception as exc:` update_job(status="failed", progress=100, error=str(exc))
FailedUpdate(text) == [status |-> "failed", progress |-> 100, error |-> text]

\* The final update_job of the try block (lines 386-399).
DoneUpdate(locals) ==
    [status |-> "done", progress |-> 100, transcript |-> TRUE,
     derived_metrics |-> locals.derived_metrics,
     artifacts_error |-> locals.artifacts_error, error |-> "None"]

\* web.py: `if job.status not in ("queued", "pending", "created", "failed")`
\* answers 409 instead of starting the pipeline.
RunnableStatuses == {"queued", "pending", "created", "failed"}

ToneGroups == {"energy_timeline", "sentence_pacing"}
SttOutcomes == {"ok", "diarization_error", "other_error"}

\* The run goes on: its update_job calls, its next position, its locals.
Continue(kws, pc, locals) ==
    /\ pjob' = ApplyUpdates(pjob, kws)
    /\ pwrites' = pwrites \o kws
    /\ ppc' = pc
    /\ plocal' = locals
    /\ UNCHANGED <<pexc, spc, dpc>>

\* A step raises out of the try block after the update_job calls it made.
Raise(kws, text, locals) ==
    /\ pjob' = ApplyUpdates(pjob, kws)
    /\ pwrites' = pwrites \o kws
    /\ ppc' = "except"
    /\ pexc' = text
    /\ plocal' = locals
    /\ UNCHANGED <<spc, dpc>>

\* POST /api/jobs, /process, /process-gcs: _fire_and_forget(process_transcription_job).
StartTranscription(deck) ==
    /\ ppc = "idle"
    /\ pjob.status \in RunnableStatuses
    /\ ppc' = "begin"
    /\ plocal' = [IdleLocals EXCEPT !.deck_upload = deck]
    /\ UNCHANGED <<pjob, pwrites, pexc, spc, dpc, ovars, fvars, lvars>>

NoDeckStatusProcessing == "processing"

\* Line 254: update_job(job_id, status="transcribing", progress=10, error=None)
NoDeckStatus == "transcribing"

\* Lines 251-254: process_deck_asset(progress_done=10), or status transcribing.
PipelineBegin ==
    /\ ppc = "begin"
    /\ IF plocal.deck_upload THEN
          \E extracted \in BOOLEAN :
             IF extracted
             THEN Continue(<<StageUpdate("deck_processing", 10), ProgressUpdate(10)>>,
                           "fork_a", plocal)
             ELSE Raise(<<StageUpdate("deck_processing", 10)>>,
                        "deck_extraction_failed", plocal)
       ELSE Continue(<<StageUpdate(NoDeckStatus, 10)>>, "fork_a", plocal)
    /\ UNCHANGED <<ovars, fvars, lvars>>

VideoFailureIsFatal(uploaded) == ~uploaded

\* _upload_video catches every exception and returns None.
VideoFailureEscapes(uploaded) == FALSE

\* Lines 257-285: get_default_bucket, then the video upload and the audio
\* conversion in a pool of two; leaving the `with` block joins both
\* (shutdown(wait=True)), also when audio_future.result() raises:
\* `video_joined` tells that this thread has waited for the video task.
PipelineForkA ==
    /\ ppc = "fork_a"
    /\ \E bucket, uploaded, converted \in BOOLEAN :
          LET kws == IF uploaded THEN <<[video_gcs_uri |-> TRUE]>> ELSE << >>
              locals == [plocal EXCEPT !.bucket_name = TRUE,
                                       !.video_joined = TRUE,
                                       !.failed = IF uploaded THEN @ ELSE @ \cup {"video"}]
          IN IF ~bucket THEN Raise(<< >>, "bucket_not_configured", plocal)
             ELSE IF VideoFailureEscapes(uploaded) THEN Raise(<< >>, "video_upload_failed", locals)
             ELSE IF ~converted THEN Raise(kws, "audio_conversion_failed", locals)
             ELSE Continue(kws, "upload_audio", locals)
    /\ UNCHANGED <<ovars, fvars, lvars>>

\* Lines 287-294: status uploading_audio_to_gcs, upload_file, uploaded_audio = True.
PipelineUploadAudio ==
    /\ ppc = "upload_audio"
    /\ \E uploaded \in BOOLEAN :
          IF uploaded
          THEN Continue(<<StageUpdate("uploading_audio_to_gcs", 20)>>, "stt_request",
                        [plocal EXCEPT !.uploaded_audio = TRUE])
          ELSE Raise(<<StageUpdate("uploading_audio_to_gcs", 20)>>,
                     "audio_upload_failed", plocal)
    /\ UNCHANGED <<ovars, fvars, lvars>>

FallsBackAgain(o, locals) == o = "diarization_error"

\* `if "diarization" not in message and "speaker" not in message: raise`;
\* the second attempt re-raises whatever it catches.
FallsBack(o, locals) == o = "diarization_error" /\ locals.diarization_requested

\* stt_v2.py 272-276 and 285-288: _emit_stage("stt_batch_recognize", 40),
\* client.batch_recognize, _emit_stage("waiting_for_stt", 60).
\* `stt_requests` lists enable_diarization of the requests built so far,
\* `stt_errors` what the failed attempts raised.
PipelineSttRequest ==
    /\ ppc = "stt_request"
    /\ \E o \in SttOutcomes :
          LET sent == [plocal EXCEPT !.stt_requests = Append(@, plocal.diarization_requested)]
              failed == [sent EXCEPT !.stt_errors = Append(@, o)]
          IN IF o = "ok"
             THEN Continue(<<StageUpdate("stt_batch_recognize", 40),
                             StageUpdate("waiting_for_stt", 60)>>, "stt_wait", sent)
             ELSE IF FallsBack(o, plocal)
             THEN Continue(<<StageUpdate("stt_batch_recognize", 40)>>, "stt_request",
                           [failed EXCEPT !.diarization_requested = FALSE])
             ELSE Raise(<<StageUpdate("stt_batch_recognize", 40)>>,
                        "batch_recognize_failed", failed)
    /\ UNCHANGED <<ovars, fvars, lvars>>

\* stt_v2.py 277 and 289: operation.result(timeout=600), inside the same try
\* as batch_recognize; then _emit_stage("parsing_results", 80).
PipelineSttWait ==
    /\ ppc = "stt_wait"
    /\ \E o \in SttOutcomes :
          IF o = "ok"
          THEN Continue(<<StageUpdate("parsing_results", 80)>>, "read_results", plocal)
          ELSE IF FallsBack(o, plocal)
          THEN Continue(<< >>, "stt_request",
                        [plocal EXCEPT !.diarization_requested = FALSE,
                                       !.stt_errors = Append(@, o)])
          ELSE Raise(<< >>, "batch_recognize_failed",
                     [plocal EXCEPT !.stt_errors = Append(@, o)])
    /\ UNCHANGED <<ovars, fvars, lvars>>

\* stt_v2.py 297 and transcription.py 305-310: _read_results_from_gcs (raises
\* when no result file appears), compute_derived_metrics.
PipelineReadResults ==
    /\ ppc = "read_results"
    /\ \E found \in BOOLEAN :
          IF found
          THEN Continue(<< >>, "fork_b", [plocal EXCEPT !.derived_metrics = {"timing"}])
          ELSE Raise(<< >>, "no_transcript_results", plocal)
    /\ UNCHANGED <<ovars, fvars, lvars>>

SignalFailureIsFatal(tone, body) == tone # ToneGroups \/ ~body

\* _compute_tone_metrics and _compute_body_language catch every exception.
SignalFailureEscapes(tone, body) == FALSE

\* Lines 313-366: tone and body-language metrics in a pool of two, each
\* returning what it could compute; video_future.result; progress 90.
PipelineForkB ==
    /\ ppc = "fork_b"
    /\ \E tone \in SUBSET ToneGroups, body \in BOOLEAN :
          LET groups == tone \cup (IF body THEN {"body_language"} ELSE {})
              missed == (ToneGroups \ tone) \cup (IF body THEN {} ELSE {"body_language"})
              locals == [plocal EXCEPT !.derived_metrics = @ \cup groups,
                                       !.failed = @ \cup missed]
          IN IF SignalFailureEscapes(tone, body)
             THEN Raise(<< >>, "signal_extraction_failed", locals)
             ELSE Continue(<<ProgressUpdate(90)>>, "artifacts", locals)
    /\ UNCHANGED <<ovars, fvars, lvars>>

ArtifactFailureIsFatal(written) == ~written

\* `except Exception as artifact_exc: artifacts_error = str(artifact_exc)`
ArtifactFailureEscapes(written) == FALSE

\* Lines 367-384: write_transcript_artifacts inside its own try.
PipelineArtifacts ==
    /\ ppc = "artifacts"
    /\ \E written \in BOOLEAN :
          LET locals == [plocal EXCEPT
                            !.artifacts_error = IF written THEN "None"
                                                ELSE "artifact_write_failed",
                            !.failed = IF written THEN @ ELSE @ \cup {"artifacts"}]
          IN IF ArtifactFailureEscapes(written)
             THEN Raise(<< >>, "artifact_write_failed", locals)
             ELSE Continue(<< >>, "final_update", locals)
    /\ UNCHANGED <<ovars, fvars, lvars>>

\* Lines 386-399: the last statement of the try block that touches the job.
PipelineFinalUpdate ==
    /\ ppc = "final_update"
    /\ Continue(<<DoneUpdate(plocal)>>, "finally", plocal)
    /\ UNCHANGED <<ovars, fvars, lvars>>

\* Lines 407-408.
PipelineExcept ==
    /\ ppc = "except"
    /\ Continue(<<FailedUpdate(pexc)>>, "finally", plocal)
    /\ UNCHANGED <<ovars, fvars, lvars>>

CleanupTargetsKeepTemp(locals, cleanup_audio, cleanup_output) ==
    (IF locals.bucket_name /\ cleanup_output THEN {"output_prefix"} ELSE {})
    \cup (IF locals.bucket_name /\ cleanup_audio /\ locals.uploaded_audio
          THEN {"audio_blob"} ELSE {})

\* What the finally block tries to remove (lines 413-437): delete_prefix and
\* delete_blob under `if bucket_name:`, shutil.rmtree(temp_dir) always.
CleanupTargets(locals, cleanup_audio, cleanup_output) ==
    {"temp_dir"}
    \cup (IF locals.bucket_name /\ cleanup_output THEN {"output_prefix"} ELSE {})
    \cup (IF locals.bucket_name /\ cleanup_audio /\ locals.uploaded_audio
          THEN {"audio_blob"} ELSE {})

\* Lines 409-437: GCS_CLEANUP_AUDIO and GCS_CLEANUP_OUTPUT are read (default
\* true), each deletion sits in its own try whose except only logs, and
\* rmtree ignores errors.
PipelineFinally ==
    /\ ppc = "finally"
    /\ \E cleanup_audio, cleanup_output \in BOOLEAN,
          broken \in SUBSET {"output_prefix", "audio_blob"} :
          LET targets == CleanupTargets(plocal, cleanup_audio, cleanup_output) IN
          plocal' = [plocal EXCEPT !.cleanup_audio = cleanup_audio,
                                   !.cleanup_output = cleanup_output,
                                   !.attempted = targets,
                                   !.delete_failed = broken \cap targets]
    /\ ppc' = "exit"
    /\ UNCHANGED <<pjob, pwrites, pexc, spc, dpc, ovars, fvars, lvars>>

\* process_transcription_job returns: the thread ends and its locals are gone.
PipelineExit ==
    /\ ppc = "exit"
    /\ ppc' = "idle"
    /\ plocal' = IdleLocals
    /\ pwrites' = << >>
    /\ pexc' = "None"
    /\ UNCHANGED <<pjob, spc, dpc, ovars, fvars, lvars>>

\* ----------------------------------------------- summarization, deck upload
\* POST /summarize (web.py 607-630): needs a transcript; writes the status
\* itself and starts process_summary_job.
SummarizeRequest ==
    /\ spc = "idle"
    /\ pjob.transcript
    /\ pjob' = UpdateLifecycle(pjob, StageUpdate("summarizing", 70))
    /\ spc' = "begin"
    /\ UNCHANGED <<ppc, plocal, pwrites, pexc, dpc, ovars, fvars, lvars>>

\* summarization.py 113-120
SummaryBegin ==
    /\ spc = "begin"
    /\ pjob' = UpdateLifecycle(pjob, StageUpdate("summarizing", 70))
    /\ spc' = "model"
    /\ UNCHANGED <<ppc, plocal, pwrites, pexc, dpc, ovars, fvars, lvars>>

\* summarization.py 122-175: progress 90 then done, or failed in the except.
SummaryEnd ==
    /\ spc = "model"
    /\ \E summarized \in BOOLEAN :
          pjob' = IF summarized
                  THEN ApplyUpdates(pjob, <<ProgressUpdate(90), StageUpdate("done", 100)>>)
                  ELSE UpdateLifecycle(pjob, FailedUpdate("summary_failed"))
    /\ spc' = "idle"
    /\ UNCHANGED <<ppc, plocal, pwrites, pexc, dpc, ovars, fvars, lvars>>

\* POST /deck (web.py 550-563): any existing job; starts process_deck_only_job.
DeckRequest ==
    /\ dpc = "idle"
    /\ dpc' = "begin"
    /\ UNCHANGED <<pjob, ppc, plocal, pwrites, pexc, spc, ovars, fvars, lvars>>

\* process_deck_asset without progress_done: its first update_job.
DeckOnlyBegin ==
    /\ dpc = "begin"
    /\ pjob' = UpdateLifecycle(pjob, StageUpdate("deck_processing", 10))
    /\ dpc' = "extract"
    /\ UNCHANGED <<ppc, plocal, pwrites, pexc, spc, ovars, fvars, lvars>>

\* transcription.py 444-454: after the extraction the job is read again.
DeckOnlyEnd ==
    /\ dpc = "extract"
    /\ \E extracted \in BOOLEAN :
          pjob' = IF ~extracted THEN UpdateLifecycle(pjob, FailedUpdate("deck_extraction_failed"))
                  ELSE IF pjob.status # "deck_processing" THEN pjob
                  ELSE IF pjob.transcript THEN UpdateLifecycle(pjob, StageUpdate("done", 100))
                  ELSE UpdateLifecycle(pjob, StageUpdate("queued", 20))
    /\ dpc' = "idle"
    /\ UNCHANGED <<ppc, plocal, pwrites, pexc, spc, ovars, fvars, lvars>>

\* ------------------------------------------------------------ specification
Next ==
    \/ \E j \in JobIds : CreateJob(j)
    \/ \E j \in JobIds : PipelineDone(j)
    \/ \E j \in JobIds : DeleteJob(j)
    \/ \E j \in JobIds : EnsureStartedFalse(j)
    \/ \E j \in JobIds : EnsureStartedTrue(j)
    \/ \E t \in Tids : WorkerStart(t)
    \/ \E t \in Tids, r \in IndependentRounds : TaskStart(t, r)
    \/ \E t \in Tids, r \in IndependentRounds : TaskFinish(t, r)
    \/ \E t \in Tids, r \in IndependentRounds : TaskCancelNotify(t, r)
    \/ \E t \in Tids : AsCompletedBegin(t)
    \/ \E t \in Tids : HandleFuture(t)
    \/ \E t \in Tids : Decide(t)
    \/ \E t \in Tids : Finally(t)

Spec == Init /\ [][Next]_vars

\* The transcription pipeline, summarization and deck upload of one job.
PipelineNext ==
    \/ \E deck \in BOOLEAN : StartTranscription(deck)
    \/ PipelineBegin
    \/ PipelineForkA
    \/ PipelineUploadAudio
    \/ PipelineSttRequest
    \/ PipelineSttWait
    \/ PipelineReadResults
    \/ PipelineForkB
    \/ PipelineArtifacts
    \/ PipelineFinalUpdate
    \/ PipelineExcept
    \/ PipelineFinally
    \/ PipelineExit
    \/ SummarizeRequest
    \/ SummaryBegin
    \/ SummaryEnd
    \/ DeckRequest
    \/ DeckOnlyBegin
    \/ DeckOnlyEnd

PipelineSpec == Init /\ [][PipelineNext]_vars

\* ---------------------------------------------------------- pure functions
NoReturn == [done |-> FALSE]
Returned(v) == [done |-> TRUE, raised |-> FALSE, value |-> v]
Raised(field) == [done |-> TRUE, raised |-> TRUE, value |-> field]

\* A string of a model response: its letters, whether it carries surrounding
\* whitespace, whether it has upper-case letters.
Lit(s) == [text |-> s, padded |-> FALSE, upper |-> FALSE]
Padded(s) == [text |-> s, padded |-> TRUE, upper |-> FALSE]
Upper(s) == [text |-> s, padded |-> FALSE, upper |-> TRUE]
Strip(s) == [s EXCEPT !.padded = FALSE]
Lower(s) == [s EXCEPT !.upper = FALSE]
\* `value in {...}` for a str and a set of literals
StrIn(s, literals) == s \in {Lit(l) : l \in literals}

\* ---- _validate_round5_schema (coaching_round5.py 31-94)
EXPECTED_CRITERIA == {"Overview", "Pitch Deck Evaluation"}
VERDICTS == {"strong", "mixed", "weak"}

\* The first check of the loop body that fails for a section.
SectionError(section) ==
    IF ~StrIn(Strip(section.criterion), EXPECTED_CRITERIA) THEN "criterion"
    ELSE IF ~StrIn(Lower(Strip(section.verdict)), VERDICTS) THEN "verdict"
    ELSE "none"

SeenCriteria(sections) == {Strip(sections[i].criterion).text : i \in 1..Len(sections)}

_validate_round5_schema(sections) ==
    LET bad == {i \in 1..Len(sections) : SectionError(sections[i]) # "none"} IN
    IF Len(sections) # 2 THEN Raised("sections")
    ELSE IF bad # {}
    THEN Raised(SectionError(sections[CHOOSE i \in bad : \A k \in bad : i <= k]))
    ELSE IF SeenCriteria(sections) # EXPECTED_CRITERIA THEN Raised("criteria")
    ELSE Returned(sections)

\* ---- _merge_transcripts (stt_v2.py 158-177): the texts, segments and words
\* of the result files, one after the other.
RECURSIVE Concat(_, _)
Concat(results, field) ==
    IF results = << >> THEN << >>
    ELSE Head(results)[field] \o Concat(Tail(results), field)

_merge_transcripts(results) ==
    [full_text |-> Concat(results, "full_text"),
     segments |-> Concat(results, "segments"),
     words |-> Concat(results, "words")]

\* ---- _backfill_sentence_text (coaching_round4.py 199-259) and
\* _backfill_round3_sentence_text (coaching_round3.py 114-159)
MOMENT_KEYS_BY_CRITERION ==
    [round \in {3, 4} |->
        IF round = 3 THEN {"Energy & Presence", "Pacing & Emphasis"}
        ELSE {"Posture & Stillness", "Eye Contact", "Calm Confidence"}]

Null == [null |-> TRUE, words |-> << >>]
Sentence(ws) == [null |-> FALSE, words |-> ws]

\* _parse_time_range: "m:ss-m:ss" gives (m*60+ss, m*60+ss), anything the
\* pattern does not match gives None.  Times are in tenths of a second.
_parse_time_range(tr) ==
    IF ~tr.matches THEN [none |-> TRUE, start |-> 0, end |-> 0]
    ELSE [none |-> FALSE, start |-> (tr.m1 * 60 + tr.s1) * 10,
                          end |-> (tr.m2 * 60 + tr.s2) * 10]

Overlapping(words, start_sec, end_sec) ==
    LET Overlaps(w) == w.end > start_sec /\ w.start < end_sec
    IN SelectSeq(words, Overlaps)

WordsOf(words) == [i \in 1..Len(words) |-> words[i].word]

\* " ".join(...).strip(): empty words at either end leave only blanks there.
RECURSIVE StripLeft(_)
StripLeft(ws) == IF ws # << >> /\ Head(ws) = "" THEN StripLeft(Tail(ws)) ELSE ws

RECURSIVE StripRight(_)
StripRight(ws) ==
    IF ws # << >> /\ ws[Len(ws)] = "" THEN StripRight(SubSeq(ws, 1, Len(ws) - 1)) ELSE ws

JoinStrip(ws) == StripRight(StripLeft(ws))

_extract_sentence_for_window(words, start_sec, end_sec) ==
    LET overlapping == Overlapping(words, start_sec, end_sec)
        text == JoinStrip(WordsOf(overlapping))
    IN IF words = << >> THEN Null
       ELSE IF overlapping = << >> THEN Null
       ELSE IF text = << >> THEN Null
       ELSE Sentence(text)

\* One moment of one section: the moment as persisted.
_backfill_sentence_text(round, criterion, moment, words) ==
    LET parsed_range == _parse_time_range(moment.time_range) IN
    IF ~StrIn(criterion, MOMENT_KEYS_BY_CRITERION[round]) THEN moment
    ELSE IF parsed_range.none
    THEN (IF moment.has_sentence_text THEN moment
          ELSE [moment EXCEPT !.has_sentence_text = TRUE, !.sentence_text = Null])
    ELSE [moment EXCEPT !.has_sentence_text = TRUE,
                        !.sentence_text = _extract_sentence_for_window(
                            words, parsed_range.start, parsed_range.end)]

\* ---- the inputs
MaxSections == 3       \* sections of a response given to the validator

CriterionValues ==
    {Lit("Overview"), Padded("Overview"), Lit("Pitch Deck Evaluation"), Lit("Other")}
VerdictValues == {Lit("strong"), Upper("strong"), Padded("weak"), Lit("great"), Lit("")}
SectionValues == [criterion : CriterionValues, verdict : VerdictValues]

ValidateCalls ==
    {[fn |-> "validate", sections |-> s] :
        s \in UNION {[1..n -> SectionValues] : n \in 0..MaxSections}}

\* Words as (text, start, end) in tenths of a second, in transcript order.
WordPool ==
    <<[word |-> "so", start |-> 90, end |-> 99],
      [word |-> "correct", start |-> 100, end |-> 105],
      [word |-> "text", start |-> 105, end |-> 119],
      [word |-> "", start |-> 119, end |-> 120],
      [word |-> "later", start |-> 120, end |-> 130]>>

PoolIndex(picked, i) == CHOOSE k \in picked : Cardinality({m \in picked : m <= k}) = i
Transcripts ==
    {[i \in 1..Cardinality(picked) |-> WordPool[PoolIndex(picked, i)]] :
        picked \in SUBSET (1..Len(WordPool))}

TimeRange(m1, s1, m2, s2) == [matches |-> TRUE, m1 |-> m1, s1 |-> s1, m2 |-> m2, s2 |-> s2]
TimeRanges ==
    {TimeRange(0, 10, 0, 12), TimeRange(0, 9, 0, 10), TimeRange(0, 13, 0, 14),
     [matches |-> FALSE, m1 |-> 0, s1 |-> 0, m2 |-> 0, s2 |-> 0]}

WrongGuess == Sentence(<<"wrong", "guess">>)
Moments ==
    {[time_range |-> tr, has_sentence_text |-> has,
      sentence_text |-> IF has THEN WrongGuess ELSE Null] :
        tr \in TimeRanges, has \in BOOLEAN}

BackfillCalls ==
    {[fn |-> "backfill", round |-> c[1], criterion |-> c[2], moment |-> m, words |-> ws] :
        c \in {<<3, Lit("Energy & Presence")>>, <<3, Padded("Energy & Presence")>>,
               <<4, Lit("Eye Contact")>>, <<4, Padded("Eye Contact")>>},
        m \in Moments, ws \in Transcripts}

\* Result files of chunks of one recording: where the chunk starts in the
\* recording, and what the recognizer returned for it (times local to it).
ChunkWords == <<[word |-> "a", start |-> 10, end |-> 15],
                [word |-> "b", start |-> 20, end |-> 25]>>
ChunkResults ==
    {[full_text |-> WordsOf(ws),
      segments |-> IF ws = << >> THEN << >>
                   ELSE <<[start |-> ws[1].start, end |-> ws[Len(ws)].end]>>,
      words |-> ws] : ws \in {SubSeq(ChunkWords, 1, n) : n \in 0..Len(ChunkWords)}}
ChunkOffsets == <<0, 550>>
MergeCalls ==
    {[fn |-> "merge", offsets |-> SubSeq(ChunkOffsets, 1, Len(rs)), results |-> rs] :
        rs \in UNION {[1..n -> ChunkResults] : n \in 1..Len(ChunkOffsets)}}

\* ---- InMemoryJobStore.update_job and get_job (storage.py 148-240) on
\* whole job records.  A field value is a token, "None" for Python's None.
NoneChecked == {"status", "progress"}          \* `if status is not None:`
UnsetChecked == {"result", "transcript_full_text", "feedback_round_1_status", "error"}
KeywordFields == NoneChecked \cup UnsetChecked   \* `if error is not UNSET:`

AssignsUnlessNone(field, value) == value # "None"

\* Whether a keyword that was passed is assigned to the job.
Assigns(field, value) == IF field \in NoneChecked THEN value # "None" ELSE TRUE

KeptCleared(job, field) == "None"

\* A field no assignment is made to.
Kept(job, field) == job[field]

\* update_job(job_id, **kw) at time `now`: the store afterwards and whether
\* `self._jobs[job_id]` raised KeyError.
StoreUpdate(store, id, kw, now) ==
    IF id \notin DOMAIN store THEN [raised |-> TRUE, store |-> store]
    ELSE [raised |-> FALSE,
          store |-> [store EXCEPT ![id] =
             [f \in DOMAIN @ |->
                 IF f = "updated_at" THEN now
                 ELSE IF f \in DOMAIN kw /\ Assigns(f, kw[f]) THEN kw[f]
                 ELSE Kept(@, f)]]]

SnapshotOf(store, id) == store[id]

\* get_job returns `self._jobs.get(job_id)`: the stored JobRecord object
\* itself, which the caller reads later.
ReadReturnedJob(store_at_get, store_at_read, id) == store_at_read[id]

StoredJob(token) ==
    [f \in KeywordFields \cup {"updated_at"} |-> IF f = "updated_at" THEN 0 ELSE token]
Stores ==
    {[id \in ids |-> StoredJob(IF id = "j1" THEN "old" ELSE "None")] :
        ids \in {{"j1"}, {"j1", "j2"}}}
Keywords ==
    UNION {[supplied -> {"None", "new"}] : supplied \in SUBSET KeywordFields}
UpdateCalls ==
    {[fn |-> "update", store |-> st, id |-> id, kw |-> kw] :
        st \in Stores, id \in {"j1", "j2"}, kw \in Keywords}

\* ---- load_shared_input (coaching_input.py 42-96).  A text is known by
\* whether it is None, "", whitespace only, or has words; a stored list by
\* whether it is None, a list of dicts or a list with other items too, and
\* by whether it is the job's own or the legacy payload's; a metrics dict
\* by whether it is None, the stored one or computed from a list.
TextValues == {"None", "empty", "blank", "words"}
Truthy(v) == v \in {"blank", "words"}
\* `a or b or ""`
FirstTruthy(a, b) == IF Truthy(a) THEN a ELSE IF Truthy(b) THEN b ELSE "empty"
\* str(value).strip()
StripText(v) == IF v = "blank" THEN "empty" ELSE v

\* _extract_transcript_payload: full_text; `legacy_full_text` is
\* payload.get("full_text") of job.result ({} when result is no dict).
_extract_full_text(job) ==
    StripText(FirstTruthy(job.transcript_full_text, job.legacy_full_text))

\* _safe_list_of_dicts: [] for what is no list, else the dict items.
_safe_list_of_dicts(value) ==
    CASE value = "None" -> "empty"
      [] value = "job_mixed" -> "job_dicts"
      [] value = "legacy_mixed" -> "legacy_dicts"
      [] OTHER -> value

\* _extract_transcript_payload: words and segments (lines 45-48).
_extract_list(job, own, legacy) ==
    _safe_list_of_dicts(IF job[own] # "None" THEN job[own] ELSE job[legacy])

\* compute_derived_metrics(words) (metrics.py 46-): the zero metrics for no
\* words, else the metrics of those words.
compute_derived_metrics(words) ==
    CASE words = "empty" -> "zero_metrics"
      [] words = "job_dicts" -> "metrics_of_job_words"
      [] OTHER -> "metrics_of_legacy_words"

\* derived_metrics_dict of lines 60-64.
derived_metrics_dict(job) ==
    IF job.derived_metrics # "None" THEN job.derived_metrics
    ELSE compute_derived_metrics(_extract_list(job, "transcript_words", "legacy_words"))

\* The SharedCoachingInput of lines 80-95 (the deck text is read from the
\* store and is not part of the job's transcript fields).
SharedInput(job) ==
    [transcript_full_text |-> _extract_full_text(job),
     words |-> _extract_list(job, "transcript_words", "legacy_words"),
     derived_metrics |-> derived_metrics_dict(job)]

TranscriptMissingNever(text) == FALSE

\* `if not transcript_full_text:` (line 57)
TranscriptMissing(text) == text = "empty"

\* The values lines 57-65 computed for the four normalized fields.
BackfillValues(job) ==
    [f \in {"transcript_full_text", "transcript_words", "transcript_segments",
            "derived_metrics"} |->
          CASE f = "transcript_full_text" -> _extract_full_text(job)
            [] f = "transcript_words" ->
                 _extract_list(job, "transcript_words", "legacy_words")
            [] f = "transcript_segments" ->
                 _extract_list(job, "transcript_segments", "legacy_segments")
            [] OTHER -> derived_metrics_dict(job)]

\* The fields the conditions of lines 68-75 find missing.
BackfillMissing(job) ==
    (IF ~Truthy(job.transcript_full_text) THEN {"transcript_full_text"} ELSE {})
    \cup {f \in {"transcript_words", "transcript_segments", "derived_metrics"} :
            job[f] = "None"}

BackfillUpdatesUnguarded(job) == BackfillValues(job)

\* The `updates` dict of lines 67-76.
BackfillUpdates(job) ==
    [f \in BackfillMissing(job) |-> BackfillValues(job)[f]]

\* What the call raised or returned, the keyword sets of its update_job
\* calls in order, and the store afterwards.
load_shared_input(store, id, now) ==
    IF id \notin DOMAIN store
    THEN [raised |-> TRUE, value |-> "Job not found", writes |-> << >>, store |-> store,
          input |-> [transcript_full_text |-> "None", words |-> "None",
                     derived_metrics |-> "None"]]
    ELSE IF TranscriptMissing(_extract_full_text(store[id]))
    THEN [raised |-> TRUE, value |-> "Transcript full text is missing",
          writes |-> << >>, store |-> store,
          input |-> [transcript_full_text |-> "None", words |-> "None",
                     derived_metrics |-> "None"]]
    ELSE LET updates == BackfillUpdates(store[id]) IN
         IF DOMAIN updates = {}
         THEN [raised |-> FALSE, value |-> _extract_full_text(store[id]),
               writes |-> << >>, store |-> store, input |-> SharedInput(store[id])]
         ELSE [raised |-> FALSE, value |-> _extract_full_text(store[id]),
               writes |-> <<DOMAIN updates>>,
               store |-> StoreUpdate(store, id, updates, now).store,
               input |-> SharedInput(store[id])]

TranscriptJobs ==
    [transcript_full_text : TextValues, legacy_full_text : TextValues,
     transcript_words : {"None", "job_dicts", "job_mixed"},
     legacy_words : {"None", "legacy_dicts", "legacy_mixed"},
     transcript_segments : {"None", "job_dicts"},
     legacy_segments : {"None", "legacy_mixed"},
     derived_metrics : {"None", "job_metrics"}, updated_at : {0}]
LoadCalls ==
    {[fn |-> fn, store |-> [k \in {"j1"} |-> job], id |-> id] :
        fn \in {"load", "load_twice"}, job \in TranscriptJobs, id \in {"j1", "j2"}}


\* ---- run_round5 applied to a job whose rounds are done or failed; only
\* the rounds update_job has keywords for can have been set done.
Round5Jobs ==
    {[NewJob EXCEPT !.transcript_full_text = "text",
                    !.status = [r \in JobRounds |-> IF r \in ds THEN "done" ELSE "failed"],
                    !.result = [r \in JobRounds |-> IF r \in ds THEN 1 ELSE NoPayload]] :
        ds \in SUBSET StoredRounds}
Round5Calls ==
    {[fn |-> "round5", store |-> [k \in {"j1"} |-> job], first |-> first, second |-> second] :
        job \in Round5Jobs, first \in ResponseKinds(5), second \in ResponseKinds(5)}

\* ---- run_round3 (coaching_round3.py 195-243) on a job whose stored
\* derived_metrics dict has the keys `metrics`: the timing statistics of
\* compute_derived_metrics and the signal groups the pipeline added.
SignalKeys == {"energy_timeline", "sentence_pacing", "body_language"}
StoredMetrics == {DerivedMetricsFields \cup extra : extra \in SUBSET SignalKeys}

\* DerivedMetrics(**derived_metrics_dict).model_dump(): a pydantic model
\* ignores the keys it does not declare.
ModelDump(metrics) == metrics \cap DerivedMetricsFields

\* `if not derived.get("energy_timeline") and not derived.get("sentence_pacing"): raise`
ToneMissing(derived) == {"energy_timeline", "sentence_pacing"} \cap derived = {}

\* The responses requested, the final status and the stored error.
run_round3(metrics, first, second, text) ==
    LET run == IF ToneMissing(ModelDump(metrics))
               THEN [calls |-> << >>, o |-> "precondition_failed"]
               ELSE StageBody(3, first, second)
    IN IF StageSucceeds(run.o)
       THEN [calls |-> run.calls, status |-> StageDoneFields(3, 1).status, error |-> NoError]
       ELSE [calls |-> run.calls, status |-> StageFailedFields(text).status,
             error |-> IF run.o = "precondition_failed"
                       THEN StageFailedFields(Text(run.o, 136)).error
                       ELSE StageFailedFields(text).error]

Round3Calls ==
    {[fn |-> "round3", metrics |-> m, first |-> first, second |-> second] :
        m \in StoredMetrics, first \in ResponseKinds(3), second \in ResponseKinds(3)}

\* ---- run_round4 (coaching_round4.py 306-369) on a job whose stored
\* derived_metrics dict has the keys `metrics`; `recomputed` tells whether
\* _recompute_body_language returns metrics or None.
\* `body_language = derived.get("body_language")`, `if not body_language:`
BodyLanguageMissing(derived) == "body_language" \notin derived

\* Lines 341-348: the request, the validation and the one repair request.
Round4Requests(first, second) ==
    IF first = "error" THEN [calls |-> <<first>>, o |-> "model_failed"]
    ELSE IF first = "valid" THEN [calls |-> <<first>>, o |-> "valid"]
    ELSE [calls |-> <<first, second>>,
          o |-> IF second = "valid" THEN "repaired" ELSE "model_failed"]

\* The try block and its except (lines 314-369): how often the metrics were
\* recomputed, the derived_metrics dicts written, the dict stored afterwards,
\* the responses requested and the status written last.
Round4TryBlock(metrics, recomputed, first, second) ==
    LET derived == ModelDump(metrics)
        written == derived \cup {"body_language"}
        run == Round4Requests(first, second)
        status == IF StageSucceeds(run.o) THEN "done" ELSE "failed"
    IN IF ~BodyLanguageMissing(derived)
       THEN [recomputations |-> 0, writes |-> << >>, metrics |-> metrics,
             calls |-> run.calls, status |-> status]
       ELSE IF recomputed
       THEN [recomputations |-> 1, writes |-> <<written>>, metrics |-> written,
             calls |-> run.calls, status |-> status]
       ELSE [recomputations |-> 1, writes |-> << >>, metrics |-> metrics,
             calls |-> << >>, status |-> "failed"]

\* run_round4: its first update_job comes before the try block.
run_round4(store, j, metrics, recomputed, first, second) ==
    IF UpdateRaises(store, j, 4)
    THEN [recomputations |-> 0, writes |-> << >>, metrics |-> metrics,
          calls |-> << >>, status |-> RoundStatus(store[j], 4)]
    ELSE Round4TryBlock(metrics, recomputed, first, second)

Round4Calls ==
    {[fn |-> fn, store |-> [k \in {"j1"} |-> [NewJob EXCEPT !.transcript_full_text = "text"]],
      metrics |-> m, recomputed |-> rc, first |-> first, second |-> second] :
        fn \in {"round4", "round4_try"}, m \in StoredMetrics, rc \in BOOLEAN,
        first \in ResponseKinds(4), second \in ResponseKinds(4)}

\* ---- one item of a moment array of a round 3 or round 4 response, as the
\* validator and then the backfill see it.  An item is a dict, a string or
\* a number; a key of a dict is missing, null, a string or a number.
JsonKinds == {"missing", "null", "string", "number"}
MomentItems ==
    [kind : {"dict"}, time_range : JsonKinds, sentence_text : JsonKinds]
    \cup [kind : {"string", "number"}, time_range : {"missing"}, sentence_text : {"missing"}]

\* The moment arrays whose items the validator looks into
\* (coaching_round3.py 70-90, coaching_round4.py 148-180).
SENTENCE_TEXT_CHECKED ==
    [round \in {3, 4} |->
        IF round = 3
        THEN {"well_delivered_moments", "misaligned_moments", "rushed_important_sentences",
              "slow_low_priority_sentences", "well_paced_sentences"}
        ELSE {"stable_moments", "confident_moments", "turned_away_events"}]
\* The moment arrays the backfill walks through.
MOMENT_KEYS ==
    [round \in {3, 4} |->
        IF round = 3 THEN SENTENCE_TEXT_CHECKED[3]
        ELSE {"stable_moments", "unstable_moments", "strong_eye_contact_moments",
              "look_away_moments", "confident_moments", "turned_away_events"}]

\* `if isinstance(m, dict) and "sentence_text" in m:` and
\* `if st is not None and not isinstance(st, str): raise`
MomentInvalid(round, key, item) ==
    /\ key \in SENTENCE_TEXT_CHECKED[round]
    /\ item.kind = "dict"
    /\ item.sentence_text = "number"

\* `tr = moment.get("time_range", "")` needs a dict, and
\* _parse_time_range's `time_range.replace` a string.
BackfillRaises(round, key, item) ==
    /\ key \in MOMENT_KEYS[round]
    /\ \/ item.kind # "dict"
       \/ item.time_range \in {"null", "number"}

MomentCalls ==
    {[fn |-> "moment", round |-> c[1], key |-> c[2], item |-> item] :
        c \in {<<3, "well_delivered_moments">>, <<4, "stable_moments">>,
               <<4, "unstable_moments">>},
        item \in MomentItems}

FunctionInit ==
    /\ OrchestratorIdle
    /\ PipelineIdle
    /\ LoadsIdle
    /\ call \in ValidateCalls \cup BackfillCalls \cup MergeCalls \cup UpdateCalls
                 \cup LoadCalls \cup Round5Calls \cup Round3Calls
                 \cup Round4Calls \cup MomentCalls
    /\ ret = NoReturn

ApplyValidate ==
    /\ call.fn = "validate"
    /\ ~ret.done
    /\ ret' = _validate_round5_schema(call.sections)
    /\ UNCHANGED <<call, ovars, pvars, lvars>>

ApplyBackfill ==
    /\ call.fn = "backfill"
    /\ ~ret.done
    /\ ret' = Returned(_backfill_sentence_text(call.round, call.criterion,
                                               call.moment, call.words))
    /\ UNCHANGED <<call, ovars, pvars, lvars>>

ApplyMerge ==
    /\ call.fn = "merge"
    /\ ~ret.done
    /\ ret' = Returned(_merge_transcripts(call.results))
    /\ UNCHANGED <<call, ovars, pvars, lvars>>

\* get_job(id), then update_job(id, **kw), then the caller reads the job
\* it was given.
ApplyUpdate ==
    /\ call.fn = "update"
    /\ ~ret.done
    /\ LET after == StoreUpdate(call.store, call.id, call.kw, 1) IN
       ret' = [done |-> TRUE, raised |-> after.raised, value |-> after.store,
               got |-> IF call.id \in DOMAIN call.store
                       THEN ReadReturnedJob(call.store, after.store, call.id)
                       ELSE StoredJob("None")]
    /\ UNCHANGED <<call, ovars, pvars, lvars>>

ApplyLoad ==
    /\ call.fn = "load"
    /\ ~ret.done
    /\ LET out == load_shared_input(call.store, call.id, 1) IN
       ret' = [done |-> TRUE, raised |-> out.raised, value |-> out.value,
               writes |-> out.writes, store |-> out.store]
    /\ UNCHANGED <<call, ovars, pvars, lvars>>

ApplyRound5 ==
    /\ call.fn = "round5"
    /\ ~ret.done
    /\ LET out == run_round5(call.store, "j1", call.first, call.second,
                             Text("model_failed", MAX_ERROR_CHARS), 1) IN
       ret' = [done |-> TRUE, raised |-> out.exc # NoException, value |-> out.exc,
               calls |-> out.calls, store |-> out.store]
    /\ UNCHANGED <<call, ovars, pvars, lvars>>

ApplyRound3 ==
    /\ call.fn = "round3"
    /\ ~ret.done
    /\ LET out == run_round3(call.metrics, call.first, call.second,
                             Text("model_failed", MAX_ERROR_CHARS)) IN
       ret' = [done |-> TRUE, raised |-> out.status = "failed", calls |-> out.calls,
               status |-> out.status, error |-> out.error]
    /\ UNCHANGED <<call, ovars, pvars, lvars>>

\* run_round4, and run_round4 once more for the same job.
ApplyRound4 ==
    /\ call.fn = "round4"
    /\ ~ret.done
    /\ LET out == run_round4(call.store, "j1", call.metrics, call.recomputed,
                             call.first, call.second)
           again == run_round4(call.store, "j1", out.metrics, call.recomputed,
                               call.first, call.second)
       IN ret' = [done |-> TRUE, raised |-> out.status # "done", calls |-> out.calls,
                  status |-> out.status, writes |-> out.writes, metrics |-> out.metrics,
                  recomputations |-> out.recomputations,
                  recomputations_again |-> again.recomputations]
    /\ UNCHANGED <<call, ovars, pvars, lvars>>

\* The try block of run_round4 on its own, entered as after a first
\* update_job that returned, and entered once more for the same job.
ApplyRound4Try ==
    /\ call.fn = "round4_try"
    /\ ~ret.done
    /\ LET out == Round4TryBlock(call.metrics, call.recomputed, call.first, call.second)
           again == Round4TryBlock(out.metrics, call.recomputed, call.first, call.second)
       IN ret' = [done |-> TRUE, raised |-> out.status # "done", calls |-> out.calls,
                  status |-> out.status, writes |-> out.writes, metrics |-> out.metrics,
                  recomputations |-> out.recomputations,
                  recomputations_again |-> again.recomputations]
    /\ UNCHANGED <<call, ovars, pvars, lvars>>

\* load_shared_input, and load_shared_input again on the store it left.
ApplyLoadTwice ==
    /\ call.fn = "load_twice"
    /\ ~ret.done
    /\ LET first == load_shared_input(call.store, call.id, 1)
           second == load_shared_input(first.store, call.id, 2)
       IN ret' = [done |-> TRUE, raised |-> first.raised, value |-> first.value,
                  writes |-> first.writes, store |-> first.store, input |-> first.input,
                  second_raised |-> second.raised, second_writes |-> second.writes,
                  second_store |-> second.store, second_input |-> second.input]
    /\ UNCHANGED <<call, ovars, pvars, lvars>>

\* The validation and, when it passes, the backfill of a response that is
\* valid but for this item (lines 343-352 of run_round4, 217-224 of
\* run_round3).
ApplyMoment ==
    /\ call.fn = "moment"
    /\ ~ret.done
    /\ LET valid == ~MomentInvalid(call.round, call.key, call.item)
           raises == valid /\ BackfillRaises(call.round, call.key, call.item)
       IN ret' = [done |-> TRUE, raised |-> ~valid \/ raises, valid |-> valid,
                  backfill_raised |-> raises,
                  status |-> IF valid /\ ~raises THEN "done" ELSE "failed"]
    /\ UNCHANGED <<call, ovars, pvars, lvars>>

FunctionNext ==
    \/ ApplyValidate
    \/ ApplyBackfill
    \/ ApplyMerge
    \/ ApplyUpdate
    \/ ApplyLoad
    \/ ApplyRound5
    \/ ApplyRound3
    \/ ApplyRound4
    \/ ApplyLoadTwice
    \/ ApplyMoment
    \/ ApplyRound4Try

FunctionSpec == FunctionInit /\ [][FunctionNext]_vars

\* ------------------------------------------- concurrent load_shared_input
\* The stages of one orchestration run call load_shared_input for the same
\* job from the threads of one pool (feedback_orchestrator.py 88-92).  The
\* in-memory store's get_job returns the live record, so the conditions of
\* lines 68-75 read the job as it is then; the database store's get_job
\* returns a row read at line 53.  update_job is atomic in both.
LoadableJobs == {job \in TranscriptJobs : ~TranscriptMissing(_extract_full_text(job))}

LoadInit ==
    /\ OrchestratorIdle
    /\ PipelineIdle
    /\ FunctionsIdle
    /\ lkind \in {"memory", "database"}
    /\ ljob \in LoadableJobs
    /\ lpc = [s \in LoadStages |-> "get"]
    /\ lsnap = [s \in LoadStages |-> << >>]
    /\ lupdates = [s \in LoadStages |-> << >>]

\* Lines 53-65: get_job, the extraction and the metrics.
LoadGet(s) ==
    /\ lpc[s] = "get"
    /\ lsnap' = [lsnap EXCEPT ![s] = ljob]
    /\ lpc' = [lpc EXCEPT ![s] =
                 IF TranscriptMissing(_extract_full_text(ljob)) THEN "raised" ELSE "check"]
    /\ UNCHANGED <<lkind, ljob, lupdates, ovars, pvars, fvars>>

\* Lines 67-76: the conditions, each choosing a value computed before.
LoadCheck(s) ==
    /\ lpc[s] = "check"
    /\ LET seen == IF lkind = "memory" THEN ljob ELSE lsnap[s]
           updates == [f \in BackfillMissing(seen) |-> BackfillValues(lsnap[s])[f]]
       IN /\ lupdates' = [lupdates EXCEPT ![s] = updates]
          /\ lpc' = [lpc EXCEPT ![s] = IF DOMAIN updates = {} THEN "done" ELSE "write"]
    /\ UNCHANGED <<lkind, ljob, lsnap, ovars, pvars, fvars>>

\* Lines 77-78: update_job(job_id, **updates).
LoadWrite(s) ==
    /\ lpc[s] = "write"
    /\ ljob' = StoreUpdate([k \in {"j1"} |-> ljob], "j1", lupdates[s],
                           ljob.updated_at + 1).store["j1"]
    /\ lpc' = [lpc EXCEPT ![s] = "done"]
    /\ UNCHANGED <<lkind, lsnap, lupdates, ovars, pvars, fvars>>

LoadNext ==
    \/ \E s \in LoadStages : LoadGet(s)
    \/ \E s \in LoadStages : LoadCheck(s)
    \/ \E s \in LoadStages : LoadWrite(s)

LoadSpec == LoadInit /\ [][LoadNext]_vars

TypeOK ==
    /\ active_jobs \subseteq JobIds
    /\ \A t \in Tids : wpc[t] \in {"idle", "start", "submitted", "collect", "decide", "finally"}
    /\ \A t \in Tids : first_failed_round[t] \in {NoRound} \cup IndependentRounds

\* ------------------------------------------------------------------ claims
LiveWorkers(j) == {t \in Tids : wpc[t] # "idle" /\ wjob[t] = j}

\* C1: among the ensure_started calls for one job id made since the last
\* worker for it finished, exactly one returned True and every other one
\* returned False, and at most one orchestration worker per job id is active.
C1_MutualExclusion ==
    \A j \in JobIds :
        /\ Cardinality(LiveWorkers(j)) <= 1
        /\ ensure_true[j] <= 1
        /\ ensure_false[j] > 0 => ensure_true[j] = 1
        /\ ensure_true[j] = 1 => Cardinality(LiveWorkers(j)) = 1

\* A second call arrived while the worker of the first is collecting its
\* round tasks: one True, one False.
C1_Witness ==
    \E j \in JobIds, t \in Tids :
        /\ ensure_true[j] = 1 /\ ensure_false[j] = 1
        /\ wjob[t] = j /\ wpc[t] = "collect"

\* C2: round 5 is done only if rounds 1-4 are all done with a result, and a
\* worker that invoked the round-5 stage had recorded no failed round and
\* re-fetched a job whose rounds 1-4 are all done.
C2_Round5OnlyAfterPrerequisites ==
    /\ \A j \in DOMAIN jobs :
          RoundStatus(jobs[j], 5) = "done" => _missing_prerequisites(jobs[j]) = {}
    /\ \A t \in Tids :
          r5_invoked[t] =>
             /\ first_failed_round[t] = NoRound
             /\ wjob[t] \in DOMAIN jobs
             /\ _missing_prerequisites(jobs[wjob[t]]) = {}

\* A worker has taken the round-5 decision after a round failed in its run
\* and did not invoke the round-5 stage.
C2_Witness ==
    \E t \in Tids :
        /\ wpc[t] = "finally"
        /\ first_failed_round[t] # NoRound
        /\ _missing_prerequisites(jobs[wjob[t]]) # {}
        /\ ~r5_invoked[t]

\* C3 (as stated): when round 5 is done with a result, a run in which a
\* round among 1-4 failed or stays not done leaves round 5 as it was.
C3_Round5Preserved ==
    [][\A j \in DOMAIN jobs :
          (_round_done(jobs[j], 5) /\ j \in DOMAIN jobs')
             => /\ RoundStatus(jobs'[j], 5) = RoundStatus(jobs[j], 5)
                /\ RoundPayload(jobs'[j], 5) = RoundPayload(jobs[j], 5)
                /\ RoundVersion(jobs'[j], 5) = RoundVersion(jobs[j], 5)
                /\ RoundError(jobs'[j], 5) = RoundError(jobs[j], 5)]_vars

\* The case of C3: a worker decides while round 5 is done.
C3_Witness ==
    \E t \in Tids : wpc[t] = "decide" /\ _round_done(jobs[wjob[t]], 5)

IsFailureEntry(e) == e[1] \in {"first_failure", "additional_failure"}
ObservedFailures(t) == SelectSeq(log[t], IsFailureEntry)

\* C4 (as stated): the round recorded as first failed is the round whose
\* task failed first.
C4_FirstFailedIsEarliest ==
    \A t \in Tids :
        first_failed_round[t] # NoRound => first_failed_round[t] = Head(fail_order[t])

\* C4 (amended): the round recorded as first failed is the round of the first
\* failure the worker observed, it is never replaced, and every failure
\* observed after it is handled as an additional failure only.
C4_FirstObservedFailure ==
    \A t \in Tids :
        LET obs == ObservedFailures(t) IN
        /\ first_failed_round[t] = NoRound <=> obs = << >>
        /\ obs # << >> =>
              /\ obs[1] = <<"first_failure", first_failed_round[t]>>
              /\ \A i \in 2..Len(obs) : obs[i][1] = "additional_failure"

\* Two failures were observed, and the one observed second had failed first.
C4_Witness ==
    \E t \in Tids :
        LET obs == ObservedFailures(t) IN
        /\ Len(obs) >= 2
        /\ obs[2][1] = "additional_failure"
        /\ obs[2][2] = Head(fail_order[t])
        /\ first_failed_round[t] = obs[1][2]

RanRounds(t) == wpc[t] = "finally" /\ outcome[t] \notin
    {"none", "abort_job_not_found", "abort_transcript_missing", "job_missing_after_rounds"}

\* C5: a run on a transcribed job in which every model response was valid at
\* once ends with rounds 1-4 done and round 5 done.
C5_EndToEndDone ==
    \A t \in Tids :
        (RanRounds(t) /\ all_valid[t]) =>
            /\ _missing_prerequisites(jobs[wjob[t]]) = {}
            /\ _round_done(jobs[wjob[t]], 5)

\* C6: a job id is in the active-orchestration set exactly while a worker for
\* it has not ended; whatever way the worker's try block ended, its end
\* removes the id, so the next ensure_started call for it returns True.
C6_ReleasedWhenEnded ==
    \A j \in JobIds : j \in active_jobs <=> LiveWorkers(j) # {}

\* A worker whose try block ended in an unexpected exception is in its
\* finally block during a later run of the same job (round 1 is no longer
\* pending, so an earlier worker has run and released the id).
C6_Witness ==
    \E t \in Tids :
        /\ wpc[t] = "finally" /\ outcome[t] = "unhandled_error"
        /\ 1 \notin rounds_to_run[t]
        /\ ensure_true[wjob[t]] = 1

\* C7: a round among 1-4 that is done with a result keeps its status and its
\* result in every step, and no step leaves a worker with a task for it that
\* is waiting or executing (no stage is invoked for it).
C7_DoneRoundsUntouched ==
    [][\A j \in DOMAIN jobs, r \in IndependentRounds :
          _round_done(jobs[j], r) =>
             /\ j \in DOMAIN jobs'
             /\ RoundStatus(jobs'[j], r) = "done"
             /\ RoundPayload(jobs'[j], r) = RoundPayload(jobs[j], r)
             /\ \A t \in Tids :
                   wjob'[t] = j => futures'[t][r] \notin {"PENDING", "RUNNING", "CANCELLED"}]_vars

\* A run is collecting its tasks on a job whose round 1 was done when the run
\* started: round 1 was not submitted, the other rounds were.
C7_Witness ==
    \E t \in Tids :
        /\ wpc[t] = "collect"
        /\ _round_done(jobs[wjob[t]], 1)
        /\ rounds_to_run[t] = {2, 3, 4}
        /\ futures[t][1] = "NONE" /\ futures[t][2] = "RUNNING"

\* C8: when a worker takes the round-5 decision, and at any later point of
\* that worker, every round task it submitted has settled (returned, raised,
\* or was cancelled and taken off the queue).
C8_DecisionAfterAllSettled ==
    \A t \in Tids :
        wpc[t] \in {"decide", "finally"} =>
            \A r \in IndependentRounds :
                /\ r \in rounds_to_run[t] => futures[t][r] \in Settled
                /\ r \notin rounds_to_run[t] => futures[t][r] = "NONE"

\* A worker is at the round-5 decision after a run in which one task
\* returned, one raised and one was cancelled.
C8_Witness ==
    \E t \in Tids :
        /\ wpc[t] = "decide"
        /\ \E a, b, c \in rounds_to_run[t] :
              /\ futures[t][a] = "FINISHED_OK"
              /\ futures[t][b] = "FINISHED_EXC"
              /\ futures[t][c] = "CANCELLED_AND_NOTIFIED"

\* C9: every round slot 1-5 of every job has a status among pending, running,
\* done, failed, a result only when done and an error only when failed.
C9_RoundSlotInvariant ==
    \A j \in DOMAIN jobs, r \in 1..5 :
        /\ RoundStatus(jobs[j], r) \in Statuses
        /\ RoundPayload(jobs[j], r) # NoPayload => RoundStatus(jobs[j], r) = "done"
        /\ RoundError(jobs[j], r) # NoError => RoundStatus(jobs[j], r) = "failed"

StagesInProgress(j, r) == {t \in Tids : wjob[t] = j /\ futures[t][r] = "RUNNING"}

\* C10: for every job and every round slot at most one execution of the
\* slot's stage is in progress.
C10_OneStagePerSlot ==
    \A j \in JobIds, r \in IndependentRounds : Cardinality(StagesInProgress(j, r)) <= 1

\* The stages of two different slots of one job are in progress at once.
C10_Witness ==
    \E j \in JobIds, r1, r2 \in IndependentRounds :
        /\ r1 # r2
        /\ StagesInProgress(j, r1) # {}
        /\ StagesInProgress(j, r2) # {}

\* C11: whenever a round stage has raised from its try block, the round's
\* status is failed, its error is the text of the exception, cut to at most
\* MAX_ERROR_CHARS characters and then ending in "...", and the stage's
\* caller holds that exception.
C11_FailurePersisted ==
    \A t \in Tids, r \in 1..5 :
        stage_exc[t][r].src = "body" =>
            /\ wjob[t] \in DOMAIN jobs
            /\ RoundStatus(jobs[wjob[t]], r) = "failed"
            /\ LET raised == stage_exc[t][r].text
                   stored == RoundError(jobs[wjob[t]], r) IN
               /\ stored.msg = raised.msg
               /\ stored.len <= MAX_ERROR_CHARS
               /\ raised.len <= MAX_ERROR_CHARS => stored = raised
               /\ raised.len > MAX_ERROR_CHARS => stored.dots
            /\ r \in IndependentRounds => futures[t][r] = "FINISHED_EXC"

\* A stage has raised an exception whose text is longer than the maximum and
\* the stored error is the cut text.
C11_Witness ==
    \E t \in Tids, r \in 1..5 :
        /\ stage_exc[t][r].src = "body"
        /\ stage_exc[t][r].text.len > MAX_ERROR_CHARS
        /\ RoundError(jobs[wjob[t]], r).dots
        /\ RoundError(jobs[wjob[t]], r).len = MAX_ERROR_CHARS

\* C12: in every round stage a first response that is valid is followed by
\* no repair request, and a first response that fails parsing or validation
\* is followed by exactly one repair request, after which no further request
\* is made.
C12_OneRepairRequest ==
    \A t \in Tids, r \in 1..5 :
        LET calls == model_calls[t][r] IN
        calls # << >> =>
            /\ Len(calls) <= 2
            /\ calls[1] = "valid" => Len(calls) = 1
            /\ calls[1] \in {"sliceable", "invalid"} => Len(calls) = 2

\* -------------------------------------------------------- pipeline claims
LastWrite == pwrites[Len(pwrites)]

\* C13: every run of the transcription pipeline ends with a last update_job
\* that leaves the job failed at progress 100 with the text of the exception
\* the try block raised, or, when nothing was raised, done at progress 100
\* with the transcript and the derived metrics in that same update.
C13_RunEndsTerminal ==
    /\ [](ppc = "finally" =>
            /\ pwrites # << >>
            /\ IF pexc # "None"
               THEN LastWrite = [status |-> "failed", progress |-> 100, error |-> pexc]
               ELSE /\ DOMAIN LastWrite = {"status", "progress", "transcript",
                                          "derived_metrics", "artifacts_error", "error"}
                    /\ LastWrite.status = "done"
                    /\ LastWrite.progress = 100
                    /\ LastWrite.transcript
                    /\ "timing" \in LastWrite.derived_metrics
                    /\ LastWrite.error = "None")
    /\ [][ppc # "finally" /\ ppc' = "finally" =>
            /\ pjob'.status = (IF pexc # "None" THEN "failed" ELSE "done")
            /\ pjob'.progress = 100
            /\ pjob'.error = pexc
            /\ pexc = "None" => pjob'.transcript]_vars

\* A run that raised while waiting for the recognizer has ended failed.
C13_Witness ==
    /\ ppc = "finally"
    /\ pexc = "batch_recognize_failed"
    /\ Len(pwrites) >= 5
    /\ LastWrite.status = "failed"
    /\ LastWrite.error = pexc

HasProgress(kw) == "progress" \in DOMAIN kw
ProgressWrites == SelectSeq(pwrites, HasProgress)

\* C14: within one run of the transcription pipeline the values written to
\* the job's progress are within 0..100 and never decrease.
C14_ProgressNonDecreasing ==
    /\ \A i \in 1..Len(ProgressWrites) : ProgressWrites[i].progress \in 0..100
    /\ \A i \in 1..(Len(ProgressWrites) - 1) :
          ProgressWrites[i].progress <= ProgressWrites[i + 1].progress

Terminal == {"done", "failed"}

\* C15: once the lifecycle status is done or failed, only an update_job of a
\* run of the transcription pipeline changes it.
C15_TerminalStatusStable ==
    [][pjob.status \in Terminal /\ pjob'.status # pjob.status
          => pwrites' # pwrites /\ ppc # "idle"]_vars

SpecStatuses ==
    {"queued", "transcribing", "uploading_audio_to_gcs", "waiting_for_stt",
     "parsing_results", "summarizing", "deck_processing", "done", "failed"}

StatusesWritten == {pwrites[i].status : i \in {k \in 1..Len(pwrites) : "status" \in DOMAIN pwrites[k]}}

\* C16 as stated: every lifecycle status written during a pipeline run is one
\* of queued, transcribing, uploading_audio_to_gcs, waiting_for_stt,
\* parsing_results, summarizing, deck_processing, done, failed.
C16_StatusInSpecList ==
    /\ pjob.status \in SpecStatuses
    /\ StatusesWritten \subseteq SpecStatuses

\* C16 amended: every lifecycle status written during a pipeline run is one
\* of those nine values or stt_batch_recognize.
C16_StatusInCodeList ==
    /\ pjob.status \in SpecStatuses \cup {"stt_batch_recognize"}
    /\ StatusesWritten \subseteq SpecStatuses \cup {"stt_batch_recognize"}

\* A run has asked the recognizer and waits for it.
C16_Witness ==
    /\ ppc = "stt_wait"
    /\ {"stt_batch_recognize", "waiting_for_stt"} \subseteq StatusesWritten
    /\ pjob.status = "waiting_for_stt"

BestEffortTexts == {"video_upload_failed", "signal_extraction_failed", "artifact_write_failed"}
SignalGroups == ToneGroups \cup {"body_language"}

C18_BackfillGroundTruth ==
    call.fn = "backfill" /\ ret.done /\ call.moment.time_range.matches =>
        LET window == _parse_time_range(call.moment.time_range)
            spoken == Overlapping(call.words, window.start, window.end)
        IN /\ ret.value.has_sentence_text
           /\ ret.value.sentence_text =
                 IF spoken = << >> THEN Null ELSE Sentence(WordsOf(spoken))

Shifted(seq, offset) ==
    [i \in 1..Len(seq) |-> [seq[i] EXCEPT !.start = @ + offset, !.end = @ + offset]]

RECURSIVE OnOneTimeline(_, _, _)
OnOneTimeline(results, offsets, field) ==
    IF results = << >> THEN << >>
    ELSE Shifted(Head(results)[field], Head(offsets))
         \o OnOneTimeline(Tail(results), Tail(offsets), field)

\* C19: merging chunks shifts the word and segment times of each chunk by
\* the chunk's start offset and concatenates the chunks in order, so the
\* merged words are in ascending time order on one timeline.
C19_MergeOffsetsChunks ==
    call.fn = "merge" /\ ret.done =>
        /\ ret.value.words = OnOneTimeline(call.results, call.offsets, "words")
        /\ ret.value.segments = OnOneTimeline(call.results, call.offsets, "segments")
        /\ \A i, k \in 1..Len(ret.value.words) :
              i < k => ret.value.words[i].start <= ret.value.words[k].start

ExactlyOnce(sections) ==
    /\ Len(sections) = Cardinality(EXPECTED_CRITERIA)
    /\ \A e \in EXPECTED_CRITERIA :
          Cardinality({i \in 1..Len(sections) : sections[i].criterion = Lit(e)}) = 1

VerdictsEnumerated(sections) ==
    \A i \in 1..Len(sections) : StrIn(sections[i].verdict, VERDICTS)

\* C20: the validator accepts a response exactly when its sections carry
\* each expected identifier once and nothing else and every verdict is one
\* of strong, mixed, weak; a rejection names a field that is violated.
C20_ValidatorExact ==
    call.fn = "validate" /\ ret.done =>
        /\ ~ret.raised <=> ExactlyOnce(call.sections) /\ VerdictsEnumerated(call.sections)
        /\ ret.raised /\ ret.value = "verdict" => ~VerdictsEnumerated(call.sections)
        /\ ret.raised /\ ret.value # "verdict" => ~ExactlyOnce(call.sections)

\* ----------------------------------------------------------- store claims
\* C21: immediately after create_job the job is queued at progress 0 with no
\* transcript, and each of its round slots 1..5 is pending with no result
\* and no error.
C21_CreatedJobAllPending ==
    [][\A j \in JobIds : j \notin DOMAIN jobs /\ j \in DOMAIN jobs' =>
          /\ NewLifecycle.status = "queued"
          /\ NewLifecycle.progress = 0
          /\ ~_has_transcript(jobs'[j])
          /\ \A r \in 1..5 :
                /\ RoundStatus(jobs'[j], r) = "pending"
                /\ RoundPayload(jobs'[j], r) = NoPayload
                /\ RoundError(jobs'[j], r) = NoError]_vars

\* C22: update_job on an existing job changes only fields that were
\* supplied, plus updated_at, and no other job; on an unknown id it raises
\* and the store is unchanged.
C22_UpdateFrame ==
    call.fn = "update" /\ ret.done =>
        IF call.id \notin DOMAIN call.store
        THEN ret.raised /\ ret.value = call.store
        ELSE /\ ~ret.raised
             /\ DOMAIN ret.value = DOMAIN call.store
             /\ \A other \in DOMAIN call.store \ {call.id} :
                   ret.value[other] = call.store[other]
             /\ \A f \in KeywordFields \ DOMAIN call.kw :
                   ret.value[call.id][f] = call.store[call.id][f]
             /\ \A f \in DOMAIN call.kw :
                   call.kw[f] # "None" => ret.value[call.id][f] = call.kw[f]
             /\ ret.value[call.id].updated_at = 1

\* An update of one of two jobs that supplies some fields and omits others.
C22_Witness ==
    /\ call.fn = "update" /\ ret.done /\ ~ret.raised
    /\ DOMAIN call.store = {"j1", "j2"}
    /\ call.id = "j1"
    /\ DOMAIN call.kw = {"status", "error"}
    /\ ret.value["j1"].status = "new"
    /\ ret.value["j1"].result = "old"

C24_GetIsSnapshot ==
    call.fn = "update" /\ ret.done /\ ~ret.raised =>
        ret.got = SnapshotOf(call.store, call.id)

\* Keywords of a round stage's update_job call that name a field of its own
\* round slot (feedback_round_<r>, _version, _status, _error).
SlotKeywords == {"result", "version", "status", "error"}

\* C25: during one orchestration run no two concurrently executing round
\* stages among rounds 1-4 write the same job field: every write a stage
\* makes targets only the fields of its own round slot.
C25_StagesWriteOwnSlot ==
    [][\A t \in Tids, r \in IndependentRounds :
          /\ futures[t][r] = "PENDING" /\ futures'[t][r] = "RUNNING"
                => DOMAIN StageStartFields(r) \subseteq SlotKeywords
          /\ futures[t][r] = "RUNNING" /\ futures'[t][r] = "FINISHED_OK"
                => DOMAIN StageDoneFields(r, NoPayload) \subseteq SlotKeywords
          /\ futures[t][r] = "RUNNING" /\ futures'[t][r] = "FINISHED_EXC"
                => DOMAIN StageFailedFields(NoError) \subseteq SlotKeywords]_vars

\* C26: load_shared_input fails with a not-found error when the job does not
\* exist, and with a missing-transcript error when neither the normalized
\* transcript text nor the legacy result's full text is non-empty; in both
\* cases it writes nothing to the job store.
C26_LoadFailsWithoutWriting ==
    call.fn = "load" /\ ret.done =>
        /\ call.id \notin DOMAIN call.store =>
              /\ ret.raised /\ ret.value = "Job not found"
              /\ ret.writes = << >> /\ ret.store = call.store
        /\ /\ call.id \in DOMAIN call.store
           /\ call.store[call.id].transcript_full_text \in {"None", "empty"}
           /\ call.store[call.id].legacy_full_text \in {"None", "empty"}
           => /\ ret.raised /\ ret.value = "Transcript full text is missing"
              /\ ret.writes = << >> /\ ret.store = call.store

\* The call failed for a job without any transcript text whose other
\* normalized fields are missing too.
C26_Witness ==
    /\ call.fn = "load" /\ ret.done /\ call.id \in DOMAIN call.store
    /\ call.store[call.id].transcript_full_text = "None"
    /\ call.store[call.id].legacy_full_text = "empty"
    /\ call.store[call.id].transcript_words = "None"
    /\ ret.raised

\* C27: when an orchestration run ends with a first-observed failure or with
\* some round among 1-4 not done, and round 5 is not already done, the
\* round-5 stage is not invoked and round 5 is set to failed with the error
\* that lists the rounds among 1-4 that are not done in the re-fetched job.
C27_SkipMarksRound5Failed ==
    [][\A t \in Tids :
          /\ wpc[t] = "decide" /\ wpc'[t] = "finally"
          /\ wjob[t] \in DOMAIN jobs
          /\ MustSkipRound5(first_failed_round[t], _missing_prerequisites(jobs[wjob[t]]))
          /\ ~_round_done(jobs[wjob[t]], 5)
          => /\ ~r5_invoked'[t]
             /\ RoundStatus(jobs'[wjob[t]], 5) = "failed"
             /\ RoundError(jobs'[wjob[t]], 5) = Round5SkippedFields.error]_vars

\* C28: when run_round5 is invoked while any of rounds 1-4 is not done with
\* a result, it makes no external-model call, leaves round 5 with status
\* failed and the error naming the rounds that are not done, and raises.
C28_Round5FailsOnMissingPrerequisites ==
    /\ call.fn = "round5" /\ ret.done
    /\ Round5Prerequisites(call.store["j1"]) # {}
    => /\ ret.calls = << >>
       /\ ret.raised
       /\ RoundStatus(ret.store["j1"], 5) = "failed"
       /\ RoundError(ret.store["j1"], 5) = Round5MissingText

\* The fields of round r's slot of job j, "gone" for a deleted job.
RoundSlot(store, j, r) ==
    IF j \notin DOMAIN store THEN <<"gone">>
    ELSE <<RoundStatus(store[j], r), RoundPayload(store[j], r),
           RoundVersion(store[j], r), RoundError(store[j], r)>>

C30_SilentAbort ==
    [][\A t \in Tids :
          /\ /\ wpc[t] = "start"
             /\ wjob[t] \in DOMAIN jobs => jobs[wjob[t]].transcript_full_text = "None"
             => /\ wpc'[t] \in {"start", "finally"}
                /\ wpc'[t] = "finally" =>
                      /\ jobs' = jobs
                      /\ rounds_to_run'[t] = {} /\ futures'[t] = IdleFutures
                      /\ outcome'[t] \in {"abort_job_not_found", "abort_transcript_missing"}
          /\ /\ wpc[t] = "finally"
             /\ outcome[t] \in {"abort_job_not_found", "abort_transcript_missing"}
             => /\ futures[t] = IdleFutures /\ ~r5_invoked[t]
                /\ model_calls[t] = IdleCalls
                /\ wpc'[t] \in {"finally", "idle"}
                /\ wpc'[t] = "idle" =>
                      /\ jobs' = jobs
                      /\ wjob[t] \notin active_jobs']_vars

\* A worker aborted because its job has no transcript and is about to leave.
C30_Witness ==
    \E t \in Tids :
        /\ wpc[t] = "finally" /\ outcome[t] = "abort_transcript_missing"
        /\ wjob[t] \in DOMAIN jobs /\ wjob[t] \in active_jobs

\* C31: after Fork A the pipeline proceeds to uploading the canonical audio
\* as soon as the audio conversion has completed, without waiting for the
\* original-media upload; the media upload is awaited only later, after
\* Fork B: the step in which the run waits for it is the Fork-B step.
C31_MediaUploadJoinedAfterForkB ==
    [][~plocal.video_joined /\ plocal'.video_joined => ppc = "fork_b"]_vars

\* C32: on every termination of a pipeline run, by success or by failure,
\* the local temporary directory is removed, deletion of the speech-to-text
\* scratch output prefix is attempted, and deletion of the intermediate
\* canonical-audio object is attempted if that object was uploaded; a failing
\* deletion never propagates and never changes the job's final status.
C32_CleanupAlwaysAttempted ==
    /\ [](ppc = "exit" =>
             /\ "temp_dir" \in plocal.attempted
             /\ "output_prefix" \in plocal.attempted
             /\ plocal.uploaded_audio => "audio_blob" \in plocal.attempted)
    /\ [][ppc = "finally" =>
             /\ ppc' \in {"finally", "exit"}
             /\ ppc' = "exit" => pjob' = pjob /\ pexc' = pexc]_vars

\* The same with the conditions of the finally block: the two deletions are
\* attempted when the bucket name was resolved and the deletion is not
\* switched off by GCS_CLEANUP_OUTPUT / GCS_CLEANUP_AUDIO.
C32_CleanupAttemptedWhenBucketKnown ==
    /\ [](ppc = "exit" =>
             /\ "temp_dir" \in plocal.attempted
             /\ plocal.bucket_name /\ plocal.cleanup_output
                   => "output_prefix" \in plocal.attempted
             /\ plocal.bucket_name /\ plocal.cleanup_audio /\ plocal.uploaded_audio
                   => "audio_blob" \in plocal.attempted
             /\ ~plocal.uploaded_audio => "audio_blob" \notin plocal.attempted)
    /\ [][ppc = "finally" =>
             /\ ppc' \in {"finally", "exit"}
             /\ ppc' = "exit" => pjob' = pjob /\ pexc' = pexc]_vars

\* A failed run whose audio had been uploaded leaves after both deletions
\* failed.
C32_Witness ==
    /\ ppc = "exit" /\ pjob.status = "failed" /\ plocal.uploaded_audio
    /\ plocal.delete_failed = {"output_prefix", "audio_blob"}
    /\ "temp_dir" \in plocal.attempted

\* C33: the speech-to-text step sends the diarization-enabled request
\* first; if that fails with an error that says diarization or speaker
\* features are unsupported it sends exactly one further request without
\* diarization and the step fails only if that request fails too; any other
\* failure of the first request fails the step with no retry.  At most two
\* speech-to-text requests are sent per pipeline run.
C33_DiarizationFallbackOnce ==
    LET requests == plocal.stt_requests
        errors == plocal.stt_errors
        after_stt == {"except", "finally", "exit"}
    IN /\ Len(requests) <= 2
       /\ Len(errors) <= Len(requests)
       /\ Len(requests) >= 1 => requests[1]
       /\ Len(requests) = 2 => ~requests[2] /\ errors[1] = "diarization_error"
       /\ Len(errors) >= 1 /\ errors[1] = "other_error" =>
             Len(requests) = 1 /\ ppc \in after_stt
       /\ Len(errors) = 1 /\ errors[1] = "diarization_error" =>
             IF Len(requests) = 1 THEN ppc = "stt_request"
             ELSE ~(ppc \in after_stt /\ pexc = "batch_recognize_failed")
       /\ Len(errors) = 2 => ppc \in after_stt /\ pexc = "batch_recognize_failed"

\* The first request failed on diarization and the second one, sent without
\* it, succeeded.
C33_Witness ==
    /\ ppc = "read_results"
    /\ plocal.stt_requests = <<TRUE, FALSE>>
    /\ plocal.stt_errors = <<"diarization_error">>

\* C34: run_round3 calls the external model if and only if the job's
\* derived metrics hold a non-empty tone timeline or non-empty per-sentence
\* pacing; otherwise it ends with round 3 failed, a descriptive error, and
\* no model call.
C34_Round3NeedsToneSignal ==
    call.fn = "round3" /\ ret.done =>
        LET tone == {"energy_timeline", "sentence_pacing"} \cap call.metrics IN
        /\ ret.calls # << >> <=> tone # {}
        /\ tone = {} => ret.status = "failed" /\ ret.error.msg = "precondition_failed"

\* C35: when run_round4 finds no body-language metrics and the recomputation
\* succeeds, it persists the recomputed group onto the job before it calls
\* the model, so that a later run_round4 for the same job finds the group
\* and does not recompute; when the recomputation yields nothing, round 4
\* ends failed with no model call.
C35_RecomputedBodyLanguageReused ==
    call.fn = "round4" /\ ret.done /\ "body_language" \notin call.metrics =>
        IF call.recomputed
        THEN /\ "body_language" \in ret.metrics
             /\ ret.recomputations_again = 0
        ELSE ret.status = "failed" /\ ret.calls = << >>

C36_Absent(job) ==
    (IF job.transcript_full_text \in {"None", "empty"} THEN {"transcript_full_text"} ELSE {})
    \cup {f \in {"transcript_words", "transcript_segments", "derived_metrics"} :
            job[f] = "None"}

\* C36: for a job whose normalized transcript and metric fields are absent
\* but derivable from the legacy result payload, the first successful
\* load_shared_input writes the derived values back to the job; a second
\* load_shared_input on the otherwise unchanged job performs no write and
\* returns the same shared input.
C36_SecondLoadWritesNothing ==
    /\ call.fn = "load_twice" /\ ret.done /\ ~ret.raised
    /\ C36_Absent(call.store[call.id]) # {}
    => LET before == call.store[call.id]
           after == ret.store[call.id]
       IN /\ ret.writes = <<C36_Absent(before)>>
          /\ after.transcript_full_text = ret.input.transcript_full_text
          /\ "transcript_words" \in C36_Absent(before) => after.transcript_words = ret.input.words
          /\ "derived_metrics" \in C36_Absent(before) =>
                after.derived_metrics = ret.input.derived_metrics
          /\ \A f \in DOMAIN before \ (C36_Absent(before) \cup {"updated_at"}) :
                after[f] = before[f]
          /\ ~ret.second_raised
          /\ ret.second_writes = << >>
          /\ ret.second_store = ret.store
          /\ ret.second_input = ret.input

\* Two loads of a job that had only the legacy payload, with a word list
\* holding items that are no dicts.
C36_Witness ==
    /\ call.fn = "load_twice" /\ ret.done /\ ~ret.raised
    /\ C36_Absent(call.store[call.id]) =
          {"transcript_full_text", "transcript_words", "transcript_segments", "derived_metrics"}
    /\ call.store[call.id].legacy_words = "legacy_mixed"
    /\ ret.input.words = "legacy_dicts"
    /\ ret.second_writes = << >>

\* The rounds of job j whose slot has status running.
C37_Running(store, j) == {r \in JobRounds : RoundStatus(store[j], r) = "running"}

\* C37: in every reachable state of an existing job, if any round slot has
\* status running then an orchestration worker for that job is active (its
\* id is in the active-orchestration set); no round is left running once
\* the worker that started it has ended.
C37_RunningOnlyWhileActive ==
    /\ [](\A j \in DOMAIN jobs : C37_Running(jobs, j) # {} =>
             /\ j \in active_jobs
             /\ \E t \in Tids : wjob[t] = j /\ wpc[t] # "idle")
    /\ [][\A t \in Tids :
             wpc[t] = "finally" /\ wpc'[t] = "idle" /\ wjob[t] \in DOMAIN jobs' =>
                C37_Running(jobs', wjob[t]) = {}]_vars

\* A worker of a job is past its start while round 1 of the job is running
\* and round 2 has already failed.
C37_Witness ==
    \E t \in Tids :
        /\ wpc[t] # "idle" /\ wjob[t] \in DOMAIN jobs /\ wjob[t] \in active_jobs
        /\ futures[t][1] = "RUNNING"
        /\ RoundStatus(jobs[wjob[t]], 1) = "running"
        /\ RoundStatus(jobs[wjob[t]], 2) = "failed"

\* C38: the write-back performed by load_shared_input never replaces a
\* normalized field (transcript text, words, segments, derived metrics) that
\* is non-null on the job at the moment of the write, under every
\* interleaving with the other round stages of the same orchestration run.
C38_WriteBackFillsOnlyNull ==
    [][\A s \in LoadStages :
          lpc[s] = "write" /\ lpc'[s] = "done" =>
             \A f \in DOMAIN lupdates[s] : ljob[f] \in {"None", "empty"}]_vars

\* C40: in rounds 3 and 4, every response that passes schema validation is
\* processed by the ground-truth backfill without raising, so the round
\* ends done: after a model response was received a round can fail only
\* through a validation failure.
C40_ValidResponseBackfills ==
    call.fn = "moment" /\ ret.done /\ ret.valid =>
        ~ret.backfill_raised /\ ret.status = "done"
====
